---- MODULE Spec2Model ----
(***************************************************************************)
(* A model of meta-hybrid_mount: the Ratoon boot counter and the Granary   *)
(* snapshot store (src/core/granary.rs), the boot driver (src/main.rs),    *)
(* the planners (src/core/planner.rs, src/planner.rs), the executor        *)
(* (src/executor.rs) and the threaded mount entry (src/core/mod.rs).       *)
(***************************************************************************)
EXTENDS Integers, Sequences, FiniteSets, TLC

VARIABLES
    now,        \* SystemTime::now() in seconds since the epoch
    counter,    \* the file RATOON_COUNTER_FILE
    silos,      \* the files of GRANARY_DIR
    liveConfig, \* the file CONFIG_FILE_DEFAULT
    mods,       \* the entries of defs::MODULES_DIR
    bootCfg,    \* the config the daemon of the latest boot holds in memory
    knownGood,  \* history: bootCfg at the latest boot that was followed by disengage
    streak,     \* history: engage calls since the last disengage
    base,       \* history: how the current streak began
    hist,       \* history: outcomes of the last (up to three) engage calls of the streak
    moddir,     \* the enabled module directories: id -> mode, content, synced copy
    extraParts, \* config.partitions
    liveFs,     \* what /<partition> is on the live filesystem
    plan,       \* the MountPlan the planner returned
    ppc,        \* which planner produced the plan
    epc,        \* execute: where the call is
    todo,       \* execute: the overlay_ops the loop has not reached
    magic_queue,       \* execute: the local magic_queue
    final_overlay_ids, \* execute: the local final_overlay_ids
    fallback_ids,      \* execute: the local fallback_ids
    failed,     \* history: the operations whose mount_overlay returned Err
    handed,     \* history: the queue mount_partitions was called with
    engine,     \* history: what became of the magic engine call
    result,     \* the ExecutionResult execute returned
    events,     \* history: the mount attempts, in the order they were made
    scanned,    \* core::mount: the files the module scanner returned
    tpc,        \* core::mount: where the calling thread is
    opc,        \* core::mount: where the overlayfs thread is
    otodo,      \* core::mount: the keys of partition_lowerdir not yet mounted
    mpc,        \* core::mount: where the magic mount thread is
    mres,       \* core::mount: what the magic mount thread returned
    ovl,        \* mount_overlayfs: its arguments, locals, and the mounts it made
    mgc,        \* the magic engine: the module trees, the merged tree, the mount
    stf,        \* RuntimeState: the state file, its writer and its reader
    stg,        \* storage::setup: its arguments, position and what is mounted
    cfp         \* Config: the partitions value, parsed and serialized

ratoonVars == <<now, counter, silos, liveConfig, mods, bootCfg, knownGood,
                streak, base, hist>>

planVars == <<moddir, extraParts, liveFs, plan, ppc>>

execVars == <<epc, todo, magic_queue, final_overlay_ids, fallback_ids, failed,
              handed, engine, result, events>>

mountVars == <<scanned, tpc, opc, otodo, mpc, mres>>

engineVars == <<ovl, mgc, stf, stg, cfp>>

mountingVars == <<execVars, mountVars, engineVars>>

vars == <<ratoonVars, planVars, mountingVars>>

----------------------------------------------------------------------------
(* Bounds *)

MaxTime == 6
MaxBootTime == 2
MaxCount == 4
NMods == 2
StreakCap == 4

(* Program constants *)

NPlanMods == 2
MaxLayers == 3
NTreeMods == 2
MaxSaves == 2
MaxLoads == 2
WriteCalls == 2
MaxStr == 5
MaxItems == 2
MaxChildMounts == 2

MAX_AUTO_SILOS == 5
RatoonThreshold == 3
U8Max == 255

Configs == {"cfgA", "cfgB"}
ModIds == 1..NMods

----------------------------------------------------------------------------
(* The counter file *)

Absent == [kind |-> "absent", val |-> 0]
Junk == [kind |-> "junk", val |-> 0]
Num(n) == [kind |-> "num", val |-> n]

\* path.exists(), read_to_string(..).unwrap_or_default(), trim().parse::<u8>().unwrap_or(0)
ParseCounterJunkAsOne(c) == IF c.kind = "num" THEN c.val ELSE 1
ParseCounter(c) == IF c.kind = "num" THEN c.val ELSE 0

\* count += 1 on a u8: past 255 a build with overflow checks panics, one without wraps
OverflowOutcomes(count) == IF count = U8Max THEN {"panic", "wrap"} ELSE {"fits"}
U8Inc(count) == (count + 1) % (U8Max + 1)

----------------------------------------------------------------------------
(* The Granary: one file per silo, named <id>.json with id = silo_<timestamp> *)

SiloId(ts) == <<"silo", ts>>
Silo(ts, cfg) == [name |-> SiloId(ts), id |-> SiloId(ts), timestamp |-> ts, config |-> cfg]

RECURSIVE SortNewestFirst(_)
SortNewestFirst(S) ==
    IF S = {} THEN <<>>
    ELSE LET s == CHOOSE x \in S : \A y \in S : y.timestamp <= x.timestamp
         IN  <<s>> \o SortNewestFirst(S \ {s})

RECURSIVE SortOldestFirst(_)
SortOldestFirst(S) ==
    IF S = {} THEN <<>>
    ELSE LET s == CHOOSE x \in S : \A y \in S : y.timestamp >= x.timestamp
         IN  <<s>> \o SortOldestFirst(S \ {s})

\* list_silos: every parsable file of the directory, sorted by b.timestamp.cmp(&a.timestamp)
list_silos_oldest_first(files) == SortOldestFirst(files)
list_silos(files) == SortNewestFirst(files)

\* fs::write(&file_path, ..): a file of the same name is replaced
WriteFile(files, f) == {g \in files : g.name # f.name} \cup {f}
RemoveFile(files, name) == {g \in files : g.name # name}

\* prune_old_silos: remove the files of silos[MAX_AUTO_SILOS..]
prune_old_silos_skipped(files) == files
prune_old_silos(files) ==
    LET l == list_silos(files)
    IN  IF Len(l) > MAX_AUTO_SILOS
        THEN {g \in files : \A i \in (MAX_AUTO_SILOS + 1)..Len(l) : g.name # l[i].id}
        ELSE files

\* create_silo: write silo_<now>.json, then prune
create_silo(files, cfg, t) == prune_old_silos(WriteFile(files, Silo(t, cfg)))

\* restore_silo: the file <id>.json must exist; its config_snapshot is saved as the live config
restore_silo(files, id, live) ==
    IF \E g \in files : g.name = id
    THEN [ok |-> TRUE, config |-> (CHOOSE g \in files : g.name = id).config]
    ELSE [ok |-> FALSE, config |-> live]

\* restore_latest_silo: restore_silo(first of list_silos), an error when there is none
restore_latest_silo(files, live) ==
    LET l == list_silos(files)
    IN  IF Len(l) > 0 THEN restore_silo(files, l[1].id, live)
        ELSE [ok |-> FALSE, config |-> live]

----------------------------------------------------------------------------
(* The modules directory: each entry is a module directory with its marker *)
(* files, or a stray non-directory entry                                   *)

Markers == {"disable", "remove", "skipmount"}
EnabledDir == [kind |-> "dir", markers |-> {}]
RemovedDir == [kind |-> "dir", markers |-> {"remove"}]
StrayFile == [kind |-> "file", markers |-> {}]

\* inventory::scan's test: a directory with none of the three markers
IsEnabled(e) == e.kind = "dir" /\ e.markers \cap Markers = {}

\* File::create(<entry>/disable) fails under an entry that is no directory
CreateFails(e) == e.kind # "dir" /\ "disable" \notin e.markers

\* read_dir yields the entries in any order; `before` are those it yields ahead of
\* the first entry whose marker cannot be created
DisableOrders(m) ==
    LET failing == {i \in DOMAIN m : CreateFails(m[i])}
    IN  IF failing = {} THEN {DOMAIN m} ELSE SUBSET (DOMAIN m \ failing)

\* disable_all_modules: create <entry>/disable where it is missing; the first
\* failure returns the error and ends the loop
disable_all_modules(m, before) ==
    [ok |-> \A i \in DOMAIN m : ~CreateFails(m[i]),
     mods |-> [i \in DOMAIN m |->
                 IF i \in before
                 THEN [m[i] EXCEPT !.markers = @ \cup {"disable"}] ELSE m[i]]]

----------------------------------------------------------------------------
(* Ratoon *)

\* engage_ratoon_protocol
engage(c, files, live, m, ovf, before) ==
    LET count0 == ParseCounter(c)
        count == U8Inc(count0)
        r == restore_latest_silo(files, live)
        d == disable_all_modules(m, before)
    IN  IF ovf = "panic"
        THEN [counter |-> c, live |-> live, mods |-> m, count |-> count0,
              outcome |-> "panic"]
        ELSE IF count >= RatoonThreshold
        THEN IF r.ok
             THEN [counter |-> Absent, live |-> r.config, mods |-> m,
                   count |-> count, outcome |-> "restored"]
             ELSE [counter |-> Num(count), live |-> live, mods |-> d.mods,
                   count |-> count,
                   outcome |-> IF d.ok THEN "disabled" ELSE "aborted"]
        ELSE [counter |-> Num(count), live |-> live, mods |-> m,
              count |-> count, outcome |-> "none"]

\* disengage_ratoon_protocol: remove the counter file when it exists
disengage(c) == Absent

Bump(n) == IF n < StreakCap THEN n + 1 ELSE n
Push(h, x) == IF Len(h) < RatoonThreshold THEN Append(h, x) ELSE Append(Tail(h), x)

----------------------------------------------------------------------------
(* Operations on the Ratoon counter and the Granary *)

InitMods == [ModIds -> {EnabledDir, RemovedDir, StrayFile}]

NoPlan == [overlay_ops |-> {}, magic_module_paths |-> {},
           overlay_module_ids |-> <<>>, magic_module_ids |-> <<>>]

NoResult == [overlay_module_ids |-> <<>>, magic_module_ids |-> <<>>]

Idle == [pc |-> "idle"]

EngineIdle ==
    /\ ovl = Idle
    /\ mgc = Idle
    /\ stf = Idle
    /\ stg = Idle
    /\ cfp = Idle

ExecIdle ==
    /\ epc = "idle"
    /\ todo = {}
    /\ magic_queue = <<>>
    /\ final_overlay_ids = <<>>
    /\ fallback_ids = <<>>
    /\ failed = {}
    /\ handed = <<>>
    /\ engine = "none"
    /\ result = NoResult
    /\ events = <<>>

MountIdle ==
    /\ scanned = {}
    /\ tpc = "idle"
    /\ opc = "none"
    /\ otodo = {}
    /\ mpc = "none"
    /\ mres = "none"

PlannerIdleVars ==
    /\ moddir = <<>>
    /\ extraParts = <<>>
    /\ liveFs = <<>>
    /\ plan = NoPlan
    /\ ppc = "idle"

PlannerIdle ==
    /\ PlannerIdleVars
    /\ ExecIdle
    /\ MountIdle
    /\ EngineIdle

InitRatoon ==
    /\ now = 1
    /\ counter \in {Absent, Junk}
    /\ silos = {}
    /\ liveConfig \in Configs
    /\ mods \in InitMods
    /\ bootCfg = "none"
    /\ knownGood = "none"
    /\ streak = 0
    /\ base = IF counter = Absent THEN "absent" ELSE "present"
    /\ hist = <<>>
    /\ PlannerIdle

\* a call of engage_ratoon_protocol
EngageCall ==
    /\ \E ovf \in OverflowOutcomes(ParseCounter(counter)), before \in DisableOrders(mods) :
         LET e == engage(counter, silos, liveConfig, mods, ovf, before)
         IN  /\ counter' = e.counter
             /\ liveConfig' = e.live
             /\ mods' = e.mods
             /\ streak' = Bump(streak)
             /\ hist' = Push(hist, e.outcome)
    /\ UNCHANGED <<now, silos, bootCfg, knownGood, base>>
    /\ UNCHANGED <<planVars, mountingVars>>

\* the calls up to a stored value of MaxCount
Engage ==
    /\ ParseCounter(counter) < MaxCount
    /\ EngageCall

\* a call of disengage_ratoon_protocol, which the outer system makes after a boot
\* that completed
Disengage ==
    /\ counter' = disengage(counter)
    /\ knownGood' = IF bootCfg # "none" THEN bootCfg ELSE knownGood
    /\ streak' = 0
    /\ base' = "disengaged"
    /\ hist' = <<>>
    /\ UNCHANGED <<now, silos, liveConfig, mods, bootCfg>>
    /\ UNCHANGED <<planVars, mountingVars>>

\* main without a subcommand and without --dry-run: load the config, engage
\* Ratoon, create the "Boot Backup" silo from the config loaded before engage.
\* A boot is later on the wall clock than whatever ran before it.
Boot ==
    /\ ParseCounter(counter) < MaxCount
    /\ now < MaxTime
    /\ now' = now + 1
    /\ \E ovf \in OverflowOutcomes(ParseCounter(counter)), before \in DisableOrders(mods) :
         LET config == liveConfig
             e == engage(counter, silos, liveConfig, mods, ovf, before)
         IN  /\ ovf # "panic"
             /\ counter' = e.counter
             /\ liveConfig' = e.live
             /\ mods' = e.mods
             /\ bootCfg' = config
             /\ silos' = create_silo(silos, config, now')
             /\ streak' = Bump(streak)
             /\ hist' = Push(hist, e.outcome)
    /\ UNCHANGED <<knownGood, base>>
    /\ UNCHANGED <<planVars, mountingVars>>

\* main, Commands::SaveConfig: back the loaded config up as a silo, save the payload
SaveConfig ==
    /\ \E c \in Configs :
         /\ c # liveConfig
         /\ silos' = create_silo(silos, liveConfig, now)
         /\ liveConfig' = c
    /\ UNCHANGED <<now, counter, mods, bootCfg, knownGood, streak, base, hist>>
    /\ UNCHANGED <<planVars, mountingVars>>

\* main, "granary-create"
CreateSilo ==
    /\ silos' = create_silo(silos, liveConfig, now)
    /\ UNCHANGED <<now, counter, liveConfig, mods, bootCfg, knownGood, streak, base, hist>>
    /\ UNCHANGED <<planVars, mountingVars>>

\* main, "granary-delete": delete_silo(id), an error when the file is missing
DeleteSilo ==
    /\ \E g \in silos : silos' = RemoveFile(silos, g.name)
    /\ UNCHANGED <<now, counter, liveConfig, mods, bootCfg, knownGood, streak, base, hist>>
    /\ UNCHANGED <<planVars, mountingVars>>

\* main, "granary-restore": restore_silo(id)
RestoreSilo ==
    /\ \E g \in silos : liveConfig' = restore_silo(silos, g.id, liveConfig).config
    /\ UNCHANGED <<now, counter, silos, mods, bootCfg, knownGood, streak, base, hist>>
    /\ UNCHANGED <<planVars, mountingVars>>

\* the wall clock advances
Tick(limit) ==
    /\ now < limit
    /\ now' = now + 1
    /\ UNCHANGED <<counter, silos, liveConfig, mods, bootCfg, knownGood, streak, base, hist>>
    /\ UNCHANGED <<planVars, mountingVars>>

\* the calls of the Ratoon and Granary interface
NextRatoon ==
    \/ Engage \/ Disengage \/ SaveConfig
    \/ CreateSilo \/ DeleteSilo \/ Tick(MaxBootTime)

SpecRatoon == InitRatoon /\ [][NextRatoon]_vars

\* boot after boot with an empty granary, so that every restore fails: the
\* counter runs through all the values of its u8
NextCounter == EngageCall \/ Disengage

SpecCounter == InitRatoon /\ [][NextCounter]_vars

\* the boot driver, boot after boot
NextBoot == Boot \/ Disengage \/ SaveConfig \/ RestoreSilo

SpecBoot == InitRatoon /\ [][NextBoot]_vars

----------------------------------------------------------------------------
(* The planners *)

PModIds == 1..NPlanMods

\* defs::BUILTIN_PARTITIONS
BUILTIN_PARTITIONS == <<"system", "vendor", "system_ext", "product", "odm">>

\* what a module's tree holds under a partition name: nothing, an empty
\* directory, or a directory with entries
OnlySystem == [system |-> "files", vendor |-> "missing", my_ext |-> "missing"]
SystemAndVendor == [system |-> "files", vendor |-> "files", my_ext |-> "missing"]
EmptySystem == [system |-> "empty", vendor |-> "missing", my_ext |-> "missing"]
OnlyExtra == [system |-> "missing", vendor |-> "missing", my_ext |-> "files"]
Contents == {OnlySystem, SystemAndVendor, EmptySystem, OnlyExtra}

\* ModuleInfo::new: Overlay is "auto", Magic is "magic", Ignore is "ignore"
Modes == {"auto", "magic", "ignore"}

ModuleKinds == [mode : Modes, content : Contents, synced : BOOLEAN]
ExtraChoices == {<<>>, <<"my_ext">>, <<"vendor">>, <<"my_ext", "my_ext">>}
LiveFsChoices ==
    {[system |-> "dir", vendor |-> "dir", my_ext |-> "dir"],
     [system |-> "dir", vendor |-> "link", my_ext |-> "missing"],
     [system |-> "dir", vendor |-> "file", my_ext |-> "dir"]}

Status(content, part) == IF part \in DOMAIN content THEN content[part] ELSE "missing"

RECURSIVE Descending(_)
Descending(S) ==
    IF S = {} THEN <<>>
    ELSE LET x == CHOOSE x \in S : \A y \in S : y <= x
         IN  <<x>> \o Descending(S \ {x})

RECURSIVE Ascending(_)
Ascending(S) ==
    IF S = {} THEN <<>>
    ELSE LET x == CHOOSE x \in S : \A y \in S : x <= y
         IN  <<x>> \o Ascending(S \ {x})

\* inventory::scan: the enabled module directories, modules.sort_by(|a, b| b.id.cmp(&a.id))
scan(dir) ==
    LET ids == Descending(DOMAIN dir)
    IN  [i \in 1..Len(ids) |->
           [id |-> ids[i], mode |-> dir[ids[i]].mode,
            content |-> dir[ids[i]].content, synced |-> dir[ids[i]].synced]]

\* storage_root.join(&module.id).join(part); part "" is the module's own root
Path(id, part) == [id |-> id, part |-> part]

\* has_files: read_dir yields an entry
has_files(m, part) == Status(m.content, part) = "files"

\* has_meaningful_content
has_meaningful_content(m, parts) == \E i \in DOMAIN parts : has_files(m, parts[i])

\* the test of generate's first branch, module.mode == "magic", and of its else
TakesMagicBranch(m) == m.mode = "magic"
TakesOverlayBranchAlways(m) == TRUE
TakesOverlayBranch(m) == ~TakesMagicBranch(m)

\* the part_paths one module pushes on partition_layers[part]: one for each
\* occurrence of part in target_partitions
ModuleLayers(m, parts, part) ==
    LET hits == SelectSeq(parts, LAMBDA q : q = part /\ has_files(m, q))
    IN  [i \in 1..Len(hits) |-> Path(m.id, part)]

RECURSIVE PartitionLayers(_, _, _)
PartitionLayers(modules, parts, part) ==
    IF modules = <<>> THEN <<>>
    ELSE LET m == Head(modules)
         IN  (IF TakesOverlayBranch(m) /\ m.synced
              THEN ModuleLayers(m, parts, part) ELSE <<>>)
             \o PartitionLayers(Tail(modules), parts, part)

Range(q) == {q[i] : i \in DOMAIN q}

\* canonicalize("/<part>") and is_dir
Resolves(fs, part) == Status(fs, part) \in {"dir", "link"}
ResolvedTarget(fs, part) ==
    IF Status(fs, part) = "link" THEN <<"/system", part>> ELSE <<"/", part>>

\* core::planner::generate
generate(parts_extra, modules, fs) ==
    LET target_partitions == BUILTIN_PARTITIONS \o parts_extra
        mset == Range(modules)
        magic == {m \in mset : TakesMagicBranch(m)
                               /\ has_meaningful_content(m, target_partitions)}
        overlay == {m \in mset : TakesOverlayBranch(m) /\ m.synced
                                 /\ has_meaningful_content(m, target_partitions)}
        layered == {part \in Range(target_partitions) :
                      PartitionLayers(modules, target_partitions, part) # <<>>}
    IN  [overlay_ops |->
           {[partition_name |-> part, target |-> ResolvedTarget(fs, part),
             lowerdirs |-> PartitionLayers(modules, target_partitions, part)] :
              part \in {q \in layered : Resolves(fs, q)}},
         magic_module_paths |-> {Path(m.id, "") : m \in magic},
         overlay_module_ids |-> Ascending({m.id : m \in overlay}),
         magic_module_ids |-> Ascending({m.id : m \in magic})]

\* planner::generate of src/planner.rs: the modules are the directories of
\* mnt_base (the synced copies), walked in the order of a HashMap; a layer is
\* the module's root
IterationOrders(S) ==
    {q \in [1..Cardinality(S) -> S] : \A i, j \in DOMAIN q : i # j => q[i] # q[j]}

IsDir(m, part) == Status(m.content, part) \in {"empty", "files"}

LegacyModuleLayers(m, parts, part) ==
    LET hits == SelectSeq(parts, LAMBDA q : q = part /\ IsDir(m, q))
    IN  [i \in 1..Len(hits) |-> Path(m.id, "")]

RECURSIVE LegacyPartitionLayers(_, _, _)
LegacyPartitionLayers(modules, parts, part) ==
    IF modules = <<>> THEN <<>>
    ELSE LET m == Head(modules)
         IN  (IF m.mode # "magic" THEN LegacyModuleLayers(m, parts, part) ELSE <<>>)
             \o LegacyPartitionLayers(Tail(modules), parts, part)

legacy_generate(parts_extra, active_modules) ==
    LET all_partitions == BUILTIN_PARTITIONS \o parts_extra
        mset == Range(active_modules)
        magic == {m \in mset : m.mode = "magic"}
        overlay == {m \in mset : m.mode # "magic"
                                 /\ \E i \in DOMAIN all_partitions : IsDir(m, all_partitions[i])}
        layered == {part \in Range(all_partitions) :
                      LegacyPartitionLayers(active_modules, all_partitions, part) # <<>>}
    IN  [overlay_ops |->
           {[partition_name |-> part, target |-> <<"/", part>>,
             lowerdirs |-> LegacyPartitionLayers(active_modules, all_partitions, part)] :
              part \in layered},
         magic_module_paths |-> {Path(m.id, "") : m \in magic},
         overlay_module_ids |-> Ascending({m.id : m \in overlay}),
         magic_module_ids |-> Ascending({m.id : m \in magic})]

RatoonIdle ==
    /\ now = 1
    /\ counter = Absent
    /\ silos = {}
    /\ liveConfig = "cfgA"
    /\ mods = [i \in ModIds |-> EnabledDir]
    /\ bootCfg = "none"
    /\ knownGood = "none"
    /\ streak = 0
    /\ base = "absent"
    /\ hist = <<>>

InitPlanner ==
    /\ moddir \in [PModIds -> ModuleKinds]
    /\ extraParts \in ExtraChoices
    /\ liveFs \in LiveFsChoices
    /\ plan = NoPlan
    /\ ppc = "idle"
    /\ RatoonIdle
    /\ ExecIdle
    /\ MountIdle
    /\ EngineIdle

\* main: inventory::scan, then planner::generate
Generate ==
    /\ ppc = "idle"
    /\ plan' = generate(extraParts, scan(moddir), liveFs)
    /\ ppc' = "core"
    /\ UNCHANGED <<moddir, extraParts, liveFs, ratoonVars, mountingVars>>

\* planner::generate of src/planner.rs
GenerateLegacy ==
    /\ ppc = "idle"
    /\ \E order \in IterationOrders({id \in DOMAIN moddir : moddir[id].synced}) :
         plan' = legacy_generate(extraParts,
                   [i \in DOMAIN order |->
                      [id |-> order[i], mode |-> moddir[order[i]].mode,
                       content |-> moddir[order[i]].content,
                       synced |-> moddir[order[i]].synced]])
    /\ ppc' = "legacy"
    /\ UNCHANGED <<moddir, extraParts, liveFs, ratoonVars, mountingVars>>

NextPlanner == Generate \/ GenerateLegacy

SpecPlanner == InitPlanner /\ [][NextPlanner]_vars

\* the Granary alone, over a longer span of time
InitGranary ==
    /\ InitRatoon
    /\ counter = Absent
    /\ mods = [i \in ModIds |-> EnabledDir]

NextGranary == CreateSilo \/ DeleteSilo \/ RestoreSilo \/ SaveConfig \/ Tick(MaxTime)

SpecGranary == InitGranary /\ [][NextGranary]_vars

----------------------------------------------------------------------------
(* The executor, src/executor.rs, run on a plan of src/planner.rs *)

\* extract_id: the file name of a module path
extract_id(path) == path.id

\* Vec::sort on ids
RECURSIVE SortIds(_)
SortIds(q) ==
    IF q = <<>> THEN <<>>
    ELSE LET m == CHOOSE i \in DOMAIN q : \A j \in DOMAIN q : q[i] <= q[j]
         IN  <<q[m]>> \o SortIds(SubSeq(q, 1, m - 1) \o SubSeq(q, m + 1, Len(q)))

\* Vec::sort on module paths, which differ in their last component only
SortPaths(q) ==
    LET ids == SortIds([i \in DOMAIN q |-> extract_id(q[i])])
    IN  [i \in DOMAIN q |-> Path(ids[i], "")]

\* Vec::dedup: consecutive equal elements collapse into one
dedup_skipped(q) == q
RECURSIVE dedup(_)
dedup(q) ==
    IF Len(q) <= 1 THEN q
    ELSE IF q[1] = q[2] THEN dedup(Tail(q))
    ELSE <<q[1]>> \o dedup(Tail(q))

\* final_overlay_ids.retain(|id| !fallback_ids.contains(id))
retain(ids, fallback) == SelectSeq(ids, LAMBDA id : id \notin Range(fallback))

OverlayAttempt(target) == [engine |-> "overlay", target |-> target]
MagicAttempt(what) == [engine |-> "magic", target |-> what]

ExecModuleKinds ==
    [mode : {"auto", "magic"}, content : {OnlySystem, SystemAndVendor, OnlyExtra},
     synced : {TRUE}]

InitExec ==
    /\ moddir \in [PModIds -> ExecModuleKinds]
    /\ extraParts \in ExtraChoices
    /\ liveFs = [system |-> "dir", vendor |-> "dir", my_ext |-> "dir"]
    /\ plan = NoPlan
    /\ ppc = "idle"
    /\ RatoonIdle
    /\ ExecIdle
    /\ MountIdle
    /\ EngineIdle

\* execute, up to the overlay loop; magic_module_paths comes out of a HashSet
ExecuteBegin ==
    /\ ppc = "legacy"
    /\ epc = "idle"
    /\ \E q \in IterationOrders(plan.magic_module_paths) : magic_queue' = q
    /\ final_overlay_ids' = plan.overlay_module_ids
    /\ fallback_ids' = <<>>
    /\ todo' = plan.overlay_ops
    /\ epc' = "overlay"
    /\ UNCHANGED <<failed, handed, engine, result, events>>
    /\ UNCHANGED <<ratoonVars, planVars, mountVars, engineVars>>

\* one turn of the loop over plan.overlay_ops, a Vec filled from a HashMap
ExecuteOverlay ==
    /\ epc = "overlay"
    /\ \E op \in todo, ok \in BOOLEAN :
         /\ todo' = todo \ {op}
         /\ events' = Append(events, OverlayAttempt(op.target))
         /\ IF ok
            THEN UNCHANGED <<magic_queue, fallback_ids, failed>>
            ELSE /\ magic_queue' = magic_queue \o op.lowerdirs
                 /\ fallback_ids' = fallback_ids \o
                        [i \in DOMAIN op.lowerdirs |-> extract_id(op.lowerdirs[i])]
                 /\ failed' = failed \cup {op}
    /\ UNCHANGED <<epc, final_overlay_ids, handed, engine, result>>
    /\ UNCHANGED <<ratoonVars, planVars, mountVars, engineVars>>

\* execute, from the end of the overlay loop to its return
ExecuteMagic ==
    /\ epc = "overlay"
    /\ todo = {}
    /\ LET kept == IF fallback_ids # <<>>
                   THEN retain(final_overlay_ids, fallback_ids)
                   ELSE final_overlay_ids
           queue == dedup(SortPaths(magic_queue))
           ids == [i \in DOMAIN queue |-> extract_id(queue[i])]
       IN  /\ final_overlay_ids' = kept
           /\ IF magic_queue = <<>>
              THEN /\ result' = [overlay_module_ids |-> dedup(SortIds(kept)),
                                 magic_module_ids |-> <<>>]
                   /\ epc' = "done"
                   /\ UNCHANGED <<magic_queue, handed, engine, events>>
              ELSE \E outcome \in {"no_tempdir", "ok", "failed"} :
                     IF outcome = "no_tempdir"
                     THEN \* select_temp_dir()? or ensure_temp_dir()? returns Err
                          /\ epc' = "error"
                          /\ UNCHANGED <<magic_queue, handed, engine, result, events>>
                     ELSE /\ magic_queue' = queue
                          /\ handed' = queue
                          /\ engine' = outcome
                          /\ events' = Append(events, MagicAttempt("mount_partitions"))
                          /\ result' =
                               [overlay_module_ids |-> dedup(SortIds(kept)),
                                magic_module_ids |->
                                    dedup(SortIds(IF outcome = "ok" THEN ids ELSE <<>>))]
                          /\ epc' = "done"
    /\ UNCHANGED <<todo, fallback_ids, failed>>
    /\ UNCHANGED <<ratoonVars, planVars, mountVars, engineVars>>

NextExec == GenerateLegacy \/ ExecuteBegin \/ ExecuteOverlay \/ ExecuteMagic

SpecExec == InitExec /\ [][NextExec]_vars

----------------------------------------------------------------------------
(* core::mount, src/core/mod.rs: the overlayfs thread and the magic mount
   thread, spawned one after the other and then joined *)

MountModIds == {"modA", "my_ext"}

\* a ModuleFile of the scanner
ModuleFiles == [id : MountModIds, magic_mount : BOOLEAN, overlayfs : BOOLEAN]

MAGIC_MOUNT_ID == {f.id : f \in {g \in scanned : g.magic_mount}}
OVERLAYFS_ID == {f.id : f \in {g \in scanned : g.overlayfs}}

\* partition_lowerdir[k]: the module directories whose id is the key k
partition_lowerdir(k) == {i \in OVERLAYFS_ID : i = k}

InitMount ==
    /\ scanned \in {fs \in SUBSET ModuleFiles :
                      \A f, g \in fs : f.id = g.id => f = g}
    /\ extraParts \in ExtraChoices
    /\ tpc = "start"
    /\ opc = "none"
    /\ otodo = {}
    /\ mpc = "none"
    /\ mres = "none"
    /\ moddir = <<>>
    /\ liveFs = <<>>
    /\ plan = NoPlan
    /\ ppc = "idle"
    /\ RatoonIdle
    /\ ExecIdle
    /\ EngineIdle

\* mount, up to the two spawns
MountSpawn ==
    /\ tpc = "start"
    /\ IF scanned = {}
       THEN /\ tpc' = "done"
            /\ UNCHANGED <<opc, otodo, mpc>>
       ELSE /\ tpc' = "join_magic"
            /\ opc' = "system"
            /\ otodo' = Range(extraParts)
            /\ mpc' = "tmpfs"
    /\ UNCHANGED <<scanned, mres, execVars, ratoonVars, planVars, engineVars>>

\* the overlayfs thread: mount_partition("system", ..)
OverlaySystem ==
    /\ opc = "system"
    /\ events' = Append(events, [engine |-> "overlay", target |-> "system",
                                 lowerdirs |-> {}])
    /\ opc' = IF otodo = {} THEN "done" ELSE "partitions"
    /\ UNCHANGED <<epc, todo, magic_queue, final_overlay_ids, fallback_ids, failed,
                   handed, engine, result>>
    /\ UNCHANGED <<scanned, tpc, otodo, mpc, mres, ratoonVars, planVars, engineVars>>

\* the overlayfs thread: one turn of the loop over partition_lowerdir
OverlayPartition ==
    /\ opc = "partitions"
    /\ \E k \in otodo :
         /\ events' = Append(events, [engine |-> "overlay", target |-> k,
                                      lowerdirs |-> partition_lowerdir(k)])
         /\ otodo' = otodo \ {k}
         /\ opc' = IF otodo' = {} THEN "done" ELSE "partitions"
    /\ UNCHANGED <<epc, todo, magic_queue, final_overlay_ids, fallback_ids, failed,
                   handed, engine, result>>
    /\ UNCHANGED <<scanned, tpc, mpc, mres, ratoonVars, planVars, engineVars>>

\* the magic mount thread: the tmpfs mount on hybrid_mnt_dir
MagicTmpfs ==
    /\ mpc = "tmpfs"
    /\ events' = Append(events, [engine |-> "magic", target |-> "tmpfs",
                                 lowerdirs |-> {}])
    /\ mpc' = "magic_mount"
    /\ UNCHANGED <<epc, todo, magic_queue, final_overlay_ids, fallback_ids, failed,
                   handed, engine, result>>
    /\ UNCHANGED <<scanned, tpc, opc, otodo, mres, ratoonVars, planVars, engineVars>>

\* the magic mount thread: magic_mount(.., need_id, ..) and the thread's return
MagicMount ==
    /\ mpc = "magic_mount"
    /\ events' = Append(events, [engine |-> "magic", target |-> "magic_mount",
                                 lowerdirs |-> MAGIC_MOUNT_ID])
    /\ mpc' = "done"
    /\ mres' \in {"ok", "err"}
    /\ UNCHANGED <<epc, todo, magic_queue, final_overlay_ids, fallback_ids, failed,
                   handed, engine, result>>
    /\ UNCHANGED <<scanned, tpc, opc, otodo, ratoonVars, planVars, engineVars>>

\* magic_mount.join().unwrap()?
JoinMagic ==
    /\ tpc = "join_magic"
    /\ mpc = "done"
    /\ tpc' = IF mres = "ok" THEN "join_overlay" ELSE "failed"
    /\ UNCHANGED <<scanned, opc, otodo, mpc, mres, execVars, ratoonVars, planVars, engineVars>>

\* overlayfs.join().unwrap()
JoinOverlay ==
    /\ tpc = "join_overlay"
    /\ opc = "done"
    /\ tpc' = "done"
    /\ UNCHANGED <<scanned, opc, otodo, mpc, mres, execVars, ratoonVars, planVars, engineVars>>

NextMount ==
    \/ MountSpawn \/ OverlaySystem \/ OverlayPartition
    \/ MagicTmpfs \/ MagicMount \/ JoinMagic \/ JoinOverlay

SpecMount == InitMount /\ [][NextMount]_vars

----------------------------------------------------------------------------
(* The OverlayFS engine, src/mount/overlay.rs: mount_overlayfs and
   mount_overlayfs_staged *)

PAGE_LIMIT == 4000
SAFE_CHUNK_SIZE == 3500

\* lengths in bytes of a lower directory path and of "/proc/self/fd/<n>"
DirLens == {1165, 1749, 1750, 3600}
LowestLen == 15

Dir(i, l) == [kind |-> "dir", id |-> i, len |-> l]
Lowest == [kind |-> "lowest", id |-> 0, len |-> LowestLen]
Dest == [kind |-> "dest", id |-> 0, len |-> 0]
\* staging_root.join(format!("stage_{}_{}", timestamp, i))
StageDir(i) == [kind |-> "stage", id |-> i, len |-> 0]

LowerDirChoices ==
    UNION {{[i \in 1..n |-> Dir(i, ls[i])] : ls \in [1..n -> DirLens]} : n \in 0..MaxLayers}

RECURSIVE SumLen(_)
SumLen(q) == IF q = <<>> THEN 0 ELSE Head(q).len + SumLen(Tail(q))

\* lowerdir_config.len(): the paths and lowest joined with ":"
JoinedLen(lower_dirs) == SumLen(lower_dirs) + Len(lower_dirs) + LowestLen

\* the batching loop of mount_overlayfs_staged
RECURSIVE Batches(_, _, _, _)
Batches(dirs, batches, current_batch, current_len) ==
    IF dirs = <<>>
    THEN IF current_batch # <<>> THEN Append(batches, current_batch) ELSE batches
    ELSE LET dir == Head(dirs)
             flush == current_len + dir.len + 1 > SAFE_CHUNK_SIZE
         IN  Batches(Tail(dirs),
                     IF flush THEN Append(batches, current_batch) ELSE batches,
                     Append(IF flush THEN <<>> ELSE current_batch, dir),
                     (IF flush THEN 0 ELSE current_len) + dir.len + 1)

\* batches.iter().rev()
NotReversed(q) == q
Reverse(q) == [i \in DOMAIN q |-> q[Len(q) + 1 - i]]

\* Drop for StagedMountGuard: detach and remove the recorded mounts
GuardDrop(o) ==
    IF o.committed THEN o
    ELSE [o EXCEPT !.live = o.live \ Range(o.guard),
                   !.dirs = o.dirs \ Range(o.guard)]

InitOverlay ==
    /\ ovl \in {[pc |-> "start", lower_dirs |-> q, upper |-> u, batches |-> <<>>,
                 i |-> 0, current_base |-> Lowest, guard |-> <<>>,
                 committed |-> FALSE, made |-> <<>>, live |-> {}, dirs |-> {},
                 how |-> "none", res |-> "none"] :
                    q \in LowerDirChoices, u \in BOOLEAN}
    /\ mgc = Idle
    /\ stf = Idle
    /\ stg = Idle
    /\ cfp = Idle
    /\ PlannerIdleVars
    /\ RatoonIdle
    /\ ExecIdle
    /\ MountIdle

\* mount_overlayfs: the direct mount, then the switch to staged mounting up to
\* the creation of the staging root
MountOverlayfs ==
    /\ ovl.pc = "start"
    /\ \E direct \in BOOLEAN, root_ok \in BOOLEAN :
         ovl' =
           IF direct
           THEN [ovl EXCEPT !.pc = "done", !.how = "direct", !.res = "ok",
                            !.made = <<[target |-> Dest,
                                        lowers |-> ovl.lower_dirs \o <<Lowest>>]>>,
                            !.live = {Dest}]
           ELSE IF JoinedLen(ovl.lower_dirs) >= PAGE_LIMIT /\ ~ovl.upper
           THEN IF root_ok
                THEN [ovl EXCEPT !.pc = "staged", !.how = "staged",
                                 !.batches = Batches(ovl.lower_dirs, <<>>, <<>>, 0)]
                ELSE [ovl EXCEPT !.pc = "done", !.how = "staged", !.res = "err"]
           ELSE [ovl EXCEPT !.pc = "done", !.res = "err"]
    /\ UNCHANGED <<mgc, stf, stg, cfp, ratoonVars, planVars, execVars, mountVars>>

\* mount_overlayfs_staged: one turn of the loop over batches.iter().rev(), or
\* the return after the loop
StagedStep ==
    /\ ovl.pc = "staged"
    /\ IF ovl.i >= Len(ovl.batches)
       THEN ovl' = [ovl EXCEPT !.committed = TRUE, !.pc = "done", !.res = "ok"]
       ELSE LET batch == Reverse(ovl.batches)[ovl.i + 1]
                is_last_layer == ovl.i = Len(ovl.batches) - 1
                target_path == IF is_last_layer THEN Dest ELSE StageDir(ovl.i)
                lowerdirs == batch \o <<ovl.current_base>>
            IN  \E mkdir \in BOOLEAN, mounted \in BOOLEAN :
                  ovl' =
                    IF ~is_last_layer /\ ~mkdir
                    THEN GuardDrop([ovl EXCEPT !.pc = "done", !.res = "err"])
                    ELSE LET o == IF is_last_layer THEN ovl
                                  ELSE [ovl EXCEPT !.dirs = ovl.dirs \cup {target_path}]
                         IN  IF ~mounted
                             THEN GuardDrop([o EXCEPT !.pc = "done", !.res = "err"])
                             ELSE LET m == [o EXCEPT
                                        !.made = Append(o.made, [target |-> target_path,
                                                                 lowers |-> lowerdirs]),
                                        !.live = o.live \cup {target_path},
                                        !.i = o.i + 1]
                                  IN  IF is_last_layer THEN m
                                      ELSE [m EXCEPT !.guard = Append(m.guard, target_path),
                                                     !.current_base = target_path]
    /\ UNCHANGED <<mgc, stf, stg, cfp, ratoonVars, planVars, execVars, mountVars>>

NextOverlay == MountOverlayfs \/ StagedStep

SpecOverlay == InitOverlay /\ [][NextOverlay]_vars

----------------------------------------------------------------------------
(* The magic engine, src/mount/magic.rs: the per-module trees, merge_nodes and
   collect_module_files *)

TreeModIds == 1..NTreeMods

\* module_path: None, or Some(path inside the module with that id)
None == 0

NoChildren == <<>>

Node(ft, mp, rep, ch) ==
    [file_type |-> ft, module_path |-> mp, replace |-> rep, skip |-> FALSE,
     children |-> ch]

\* Node::new_root
new_root == Node("Directory", None, FALSE, NoChildren)

\* Node::new_module: the node of a directory entry of module m
new_module(ft, m, rep) == Node(ft, m, rep, NoChildren)

\* children.insert(name, node)
Put(ch, name, node) ==
    [n \in DOMAIN ch \cup {name} |-> IF n = name THEN node ELSE ch[n]]

\* what a module holds at system/app: nothing, a file, a symlink, or a
\* directory (with or without the replace marker) that may hold an entry x
AppShapes ==
    {[kind |-> k, replace |-> FALSE, x |-> "absent"] : k \in {"absent", "file", "link"}}
    \cup [kind : {"dir"}, replace : BOOLEAN, x : {"absent", "file", "wh"}]

\* what a module holds for vendor: nothing; a symlink system/vendor and a
\* directory vendor/ with a file v; or a directory system/vendor with the
\* replace marker
VendorShapes == {"none", "linked", "replaced"}

\* a module ships an entry under system/app or one for vendor, or neither
ModuleShapes ==
    {sh \in [app : AppShapes, vendor : VendorShapes] :
        sh.app.kind = "absent" \/ sh.vendor = "none"}

\* NodeFileType::from, and the char device with rdev 0
LeafType(k) ==
    CASE k = "file" -> "RegularFile"
      [] k = "link" -> "Symlink"
      [] k = "wh" -> "Whiteout"

\* Node::collect_module_files on <module>/system/app
AppNode(a, m) ==
    IF a.kind = "dir"
    THEN Node("Directory", m, a.replace,
              IF a.x = "absent" THEN NoChildren
              ELSE Put(NoChildren, "x", new_module(LeafType(a.x), m, FALSE)))
    ELSE new_module(LeafType(a.kind), m, FALSE)

\* process_module: the (root, system) pair of one module
process_module(shape, m) ==
    LET with_app == IF shape.app.kind = "absent" THEN NoChildren
                    ELSE Put(NoChildren, "app", AppNode(shape.app, m))
        \* system.collect_module_files(&mod_system)
        collected ==
            CASE shape.vendor = "linked" ->
                   Put(with_app, "vendor", new_module("Symlink", m, FALSE))
              [] shape.vendor = "replaced" ->
                   Put(with_app, "vendor", new_module("Directory", m, TRUE))
              [] OTHER -> with_app
        \* the loop over ROOT_PARTITIONS: <module>/vendor is a directory
        node == collected["vendor"]
        as_dir == IF node.file_type = "Symlink"
                  THEN [node EXCEPT !.file_type = "Directory", !.module_path = None]
                  ELSE node
        children ==
            IF shape.vendor = "linked"
            THEN Put(collected, "vendor",
                     [as_dir EXCEPT !.children =
                         Put(as_dir.children, "v", new_module("RegularFile", m, FALSE))])
            ELSE collected
    IN  [root |-> new_root, system |-> [new_root EXCEPT !.children = children]]

\* the head of merge_nodes: a high node without module_path takes the low
\* node's module_path, file_type and replace
MergeHeadKeepsPath(high, low) ==
    IF high.module_path = None
    THEN [high EXCEPT !.file_type = low.file_type, !.replace = low.replace]
    ELSE high
MergeHead(high, low) ==
    IF high.module_path = None
    THEN [high EXCEPT !.module_path = low.module_path,
                      !.file_type = low.file_type, !.replace = low.replace]
    ELSE high

RECURSIVE merge_nodes(_, _)
merge_nodes(high, low) ==
    [MergeHead(high, low) EXCEPT !.children =
        [n \in DOMAIN high.children \cup DOMAIN low.children |->
            IF n \notin DOMAIN high.children THEN low.children[n]
            ELSE IF n \notin DOMAIN low.children THEN high.children[n]
            ELSE merge_nodes(high.children[n], low.children[n])]]

MergePair(a, b) ==
    [root |-> merge_nodes(a.root, b.root), system |-> merge_nodes(a.system, b.system)]

\* par_iter().map(..).reduce(..): the pairs are merged in the order of
\* module_paths, grouped as the thread pool splits the slice
RECURSIVE Reductions(_)
Reductions(q) ==
    IF Len(q) = 1 THEN {q[1]}
    ELSE UNION {{MergePair(a, b) : a \in Reductions(SubSeq(q, 1, k)),
                                   b \in Reductions(SubSeq(q, k + 1, Len(q)))} :
                   k \in 1..(Len(q) - 1)}

\* collect_module_files, after the reduce: the elevation of vendor and the
\* insertion of system under the root
Assemble(pair, elevate) ==
    LET sys == pair.system
        has_content == DOMAIN pair.root.children # {} \/ DOMAIN sys.children # {}
        lifted == elevate /\ "vendor" \in DOMAIN sys.children
        system == IF lifted
                  THEN [sys EXCEPT !.children =
                           [n \in DOMAIN sys.children \ {"vendor"} |-> sys.children[n]]]
                  ELSE sys
        top == IF lifted THEN Put(pair.root.children, "vendor", sys.children["vendor"])
               ELSE pair.root.children
    IN  [some |-> has_content,
         root |-> IF has_content
                  THEN [pair.root EXCEPT !.children = Put(top, "system", system)]
                  ELSE new_root]

\* the live filesystem: /system/app, and whether /vendor is a directory with
\* /system/vendor a symlink to it; without that, /system/vendor is a
\* directory or missing
LiveApps == {"absent", "file", "dir"}
LiveChoices ==
    {lv \in [app : LiveApps, vendor_elevated : BOOLEAN, vendor_missing : BOOLEAN] :
        ~(lv.vendor_elevated /\ lv.vendor_missing)}

\* what the mount left at a path: ok is the Result, kind what now stands there
\* ("none": nothing, "mirror": the live entry), src the module_path it comes
\* from, made whether a tmpfs was created and moved onto the path, entries
\* what stands below it; of a directory also covered, whether it was mounted
\* with a tmpfs (inherited or its own), and log, the entries on which
\* do_magic_mount or mount_mirror was called, in the order of the calls;
\* hinted, whether send_unmountable was called on the path
DirResult(ok, kind, src, made, entries, covered, log) ==
    [ok |-> ok, kind |-> kind, src |-> src, made |-> made, entries |-> entries,
     covered |-> covered, log |-> log, hinted |-> FALSE]
\* send_unmountable was called on the path
Hinted(r, h) == [r EXCEPT !.hinted = h]
Projected(ok, kind, src, made, entries) ==
    DirResult(ok, kind, src, made, entries, FALSE, <<>>)
NoProj == Projected(TRUE, "none", None, FALSE, NoChildren)
Failed == Projected(FALSE, "none", None, FALSE, NoChildren)
NoEnv == [ord |-> [vendor_first |-> FALSE, z_first |-> FALSE], bad |-> {},
          umount |-> FALSE]

\* <tmp_path>/workdir: the directory and the tmpfs on it
NoWork == [dir |-> FALSE, mounted |-> FALSE]

InitMagic ==
    /\ mgc \in {[pc |-> "start", shapes |-> sh, module_paths |-> <<>>, live |-> lv,
                 some |-> FALSE, root |-> new_root, env |-> NoEnv, proj |-> NoProj,
                 work |-> NoWork] :
                    sh \in [TreeModIds -> ModuleShapes], lv \in LiveChoices}
    /\ ovl = Idle
    /\ stf = Idle
    /\ stg = Idle
    /\ cfp = Idle
    /\ PlannerIdleVars
    /\ RatoonIdle
    /\ ExecIdle
    /\ MountIdle

\* execute handing its sorted, de-duplicated queue to mount_partitions, and
\* collect_module_files
Collect ==
    /\ mgc.pc = "start"
    /\ \E queue \in IterationOrders({Path(m, "") : m \in TreeModIds}) :
         LET module_paths == dedup(SortPaths(queue))
             pairs == [i \in DOMAIN module_paths |->
                          process_module(mgc.shapes[extract_id(module_paths[i])],
                                         extract_id(module_paths[i]))]
         IN  \E pair \in Reductions(pairs) :
               LET tree == Assemble(pair, mgc.live.vendor_elevated)
               IN  mgc' = [mgc EXCEPT !.pc = "collected",
                                      !.module_paths = module_paths,
                                      !.some = tree.some, !.root = tree.root]
    /\ UNCHANGED <<ovl, stf, stg, cfp, ratoonVars, planVars, execVars, mountVars>>

\* the live filesystem below /: symlink_metadata of a path
LiveType(live, path) ==
    CASE path = <<>> -> "dir"
      [] path = <<"system">> -> "dir"
      [] path = <<"vendor">> -> IF live.vendor_elevated THEN "dir" ELSE "absent"
      [] path = <<"system", "vendor">> ->
           IF live.vendor_elevated THEN "link"
           ELSE IF live.vendor_missing THEN "absent" ELSE "dir"
      [] path = <<"system", "app">> -> live.app
      [] path \in {<<"system", "app", "x">>, <<"system", "app", "z">>} ->
           IF live.app = "dir" THEN "file" ELSE "absent"
      [] OTHER -> "absent"

\* read_dir of a live directory
LiveEntries(live, path) ==
    {n \in {"system", "vendor", "app", "x", "z"} :
        LiveType(live, Append(path, n)) # "absent"}

\* NodeFileType::from(metadata.file_type())
LiveFileType(lt) ==
    CASE lt = "dir" -> "Directory"
      [] lt = "link" -> "Symlink"
      [] OTHER -> "RegularFile"

\* the order in which a HashMap or read_dir yields a set of (at most two) names
Order(S, ord) ==
    IF S = {} THEN <<>>
    ELSE IF Cardinality(S) = 1 THEN <<CHOOSE n \in S : TRUE>>
    ELSE LET first == IF "vendor" \in S
                      THEN IF ord.vendor_first THEN "vendor"
                           ELSE CHOOSE n \in S : n # "vendor"
                      ELSE IF "z" \in S
                      THEN IF ord.z_first THEN "z" ELSE CHOOSE n \in S : n # "z"
                      ELSE CHOOSE n \in S : TRUE
         IN  <<first>> \o <<CHOOSE n \in S : n # first>>

Orders == [vendor_first : BOOLEAN, z_first : BOOLEAN]
BadNames == {"x", "z", "v", "app", "workdir"}
BadChoices == {{}} \cup {{n} : n \in BadNames}
\* the calls that fail and self.umount: with the hint disabled only the mount
\* of /system/app is made to fail
EnvChoices ==
    {e \in [bad : BadChoices, umount : BOOLEAN] : e.umount \/ e.bad \subseteq {"app"}}

\* check_tmpfs: the loop over the children, up to the break
RECURSIVE check_tmpfs(_, _, _, _)
check_tmpfs(names, node, path, live) ==
    IF names = <<>> THEN [node |-> node, has_tmpfs |-> FALSE]
    ELSE LET name == Head(names)
             child == node.children[name]
             lt == LiveType(live, Append(path, name))
             need == CASE child.file_type = "Symlink" -> TRUE
                       [] child.file_type = "Whiteout" -> lt # "absent"
                       [] OTHER -> IF lt # "absent"
                                   THEN LiveFileType(lt) # child.file_type \/ lt = "link"
                                   ELSE TRUE
         IN  IF need
             THEN IF child.module_path = None
                  THEN check_tmpfs(Tail(names),
                                   [node EXCEPT !.children[name].skip = TRUE], path, live)
                  ELSE [node |-> node, has_tmpfs |-> TRUE]
             ELSE check_tmpfs(Tail(names), node, path, live)

\* handle_directory: does it walk the live directory
EnumeratesLiveAlways(node, lt) == lt # "absent"
EnumeratesLive(node, lt) == lt # "absent" /\ ~node.replace

\* handle_directory: an error of a child returns when there is a tmpfs
AbortsOnAnyError(r, has_tmpfs) == ~r.ok
AbortsOnError(r, has_tmpfs) == ~r.ok /\ has_tmpfs

RECURSIVE do_magic_mount(_, _, _, _, _)
RECURSIVE RunItems(_, _, _, _, _, _, _)
RECURSIVE RunItem(_, _, _, _, _, _)
RECURSIVE AfterItem(_, _, _, _, _, _, _, _)

\* the two loops of handle_directory over the entries: a child node is mounted,
\* a live entry without a node is mirrored when there is a tmpfs; an error
\* returns when there is a tmpfs and is logged otherwise
RunItems(items, node, path, has_tmpfs, live, env, acc) ==
    IF items = <<>> THEN [ok |-> TRUE, entries |-> acc.entries, log |-> acc.log]
    ELSE AfterItem(items, node, path, has_tmpfs, live, env, acc,
                   RunItem(Head(items), node, path, has_tmpfs, live, env))

\* one entry of the loops: the child node is mounted unless it is skipped, a
\* live entry without a node is mirrored when there is a tmpfs
RunItem(name, node, path, has_tmpfs, live, env) ==
    IF name \in DOMAIN node.children
    THEN IF node.children[name].skip THEN NoProj
         ELSE do_magic_mount(node.children[name], Append(path, name),
                             has_tmpfs, live, env)
    ELSE IF has_tmpfs
    THEN IF name \in env.bad THEN Failed
         ELSE Projected(TRUE, "mirror", None, FALSE, NoChildren)
    ELSE NoProj

\* the result r of the entry: return the error, or go on with the next
AfterItem(items, node, path, has_tmpfs, live, env, acc, r) ==
    LET name == Head(items)
        called == IF name \in DOMAIN node.children
                  THEN ~node.children[name].skip ELSE has_tmpfs
        acc2 == [entries |-> IF r.kind # "none" THEN Put(acc.entries, name, r)
                             ELSE acc.entries,
                 log |-> IF called THEN Append(acc.log, [name |-> name, res |-> r])
                         ELSE acc.log]
    IN  IF AbortsOnError(r, has_tmpfs)
        THEN [ok |-> FALSE, entries |-> acc2.entries, log |-> acc2.log]
        ELSE RunItems(Tail(items), node, path, has_tmpfs, live, env, acc2)

\* handle_directory: what it returns, ran being the outcome of its loops
Returns(node, path, env, lt, walks, create_tmpfs, has_tmpfs, ran) ==
    LET refused == DirResult(FALSE, "none", None, FALSE, NoChildren, has_tmpfs, <<>>)
        aborted == DirResult(FALSE, "none", None, FALSE, ran.entries, has_tmpfs, ran.log)
    IN  IF has_tmpfs /\ lt = "absent" /\ node.module_path = None
        THEN refused    \* cannot mount root dir
        ELSE IF walks /\ lt \notin {"dir", "link"}
        THEN refused    \* read_dir()? of something that is no directory
        ELSE IF node.replace /\ node.module_path = None
        THEN refused    \* declared as replaced but it is root
        ELSE IF ~ran.ok
        THEN aborted
        ELSE IF create_tmpfs /\ path # <<>> /\ path[Len(path)] \in env.bad
        THEN aborted    \* mount_move fails
        ELSE Hinted(DirResult(TRUE, "dir", node.module_path, create_tmpfs,
                              ran.entries, has_tmpfs, ran.log),
                    create_tmpfs /\ env.umount)

\* handle_directory
handle_directory(node0, path, inherited, live, env) ==
    LET lt == LiveType(live, path)
        create0 == ~inherited /\ node0.replace /\ node0.module_path # None
        checked == IF ~inherited /\ ~create0
                   THEN check_tmpfs(Order(DOMAIN node0.children, env.ord), node0, path, live)
                   ELSE [node |-> node0, has_tmpfs |-> inherited]
        node == checked.node
        create_tmpfs == IF ~inherited /\ ~create0 THEN checked.has_tmpfs ELSE create0
        has_tmpfs == checked.has_tmpfs \/ create_tmpfs
        walks == EnumeratesLive(node, lt)
        from_live == IF walks THEN Order(LiveEntries(live, path), env.ord) ELSE <<>>
        rest == Order(DOMAIN node.children \ Range(from_live), env.ord)
    IN  Returns(node, path, env, lt, walks, create_tmpfs, has_tmpfs,
                RunItems(from_live \o rest, node, path, has_tmpfs, live, env,
                         [entries |-> NoChildren, log |-> <<>>]))

\* do_magic_mount
do_magic_mount(node, path, has_tmpfs, live, env) ==
    LET failing == path[Len(path)] \in env.bad
    IN  CASE node.file_type = "RegularFile" ->
               \* the with_context closure of mount_bind runs when it fails
               IF node.module_path = None THEN Failed
               ELSE IF failing THEN Hinted(Failed, env.umount)
               ELSE Projected(TRUE, "file", node.module_path, FALSE, NoChildren)
          [] node.file_type = "Symlink" ->
               IF node.module_path = None \/ failing \/ ~has_tmpfs THEN Failed
               ELSE Projected(TRUE, "link", node.module_path, FALSE, NoChildren)
          [] node.file_type = "Whiteout" -> NoProj
          [] OTHER -> handle_directory(node, path, has_tmpfs, live, env)

\* mount_partitions: the calls before the tree is mounted
SetupCalls == {"ensure_dir_exists", "mount_tmp", "make_private"}

\* mount_partitions, after collect_module_files
MountPartitions ==
    /\ mgc.pc = "collected"
    /\ \/ \* no module has content: nothing is mounted
          /\ ~mgc.some
          /\ mgc' = [mgc EXCEPT !.pc = "done"]
       \/ \* ensure_dir_exists, mount or mount_change returns the error
          /\ mgc.some
          /\ \E call \in SetupCalls :
                mgc' = [mgc EXCEPT
                          !.pc = "done",
                          !.env = [NoEnv EXCEPT !.bad = {call}],
                          !.proj = Failed,
                          !.work = [dir |-> call # "ensure_dir_exists",
                                    mounted |-> call = "make_private"]]
       \/ \* the tree is mounted, the work directory detached and removed
          /\ mgc.some
          /\ \E ord \in Orders, e \in EnvChoices :
                LET env == [ord |-> ord, bad |-> e.bad, umount |-> e.umount]
                IN  mgc' = [mgc EXCEPT
                              !.pc = "done",
                              !.env = env,
                              !.proj = handle_directory(mgc.root, <<>>, FALSE,
                                                        mgc.live, env),
                              !.work = [dir |-> "workdir" \in e.bad,
                                        mounted |-> "workdir" \in e.bad]]
    /\ UNCHANGED <<ovl, stf, stg, cfp, ratoonVars, planVars, execVars, mountVars>>

NextMagic == Collect \/ MountPartitions

SpecMagic == InitMagic /\ [][NextMagic]_vars

----------------------------------------------------------------------------
(* The runtime state file, src/core/state.rs: RuntimeState::save in the
   daemon and RuntimeState::load in a subcommand process, step by step *)

\* the content of STATE_FILE: the serialized state of the ver-th save, of
\* which len write calls have arrived (ver 0: the file of an earlier boot)
NoFile == [exists |-> FALSE, ver |-> 0, len |-> 0]
File(ver, len) == [exists |-> TRUE, ver |-> ver, len |-> len]

\* serde_json::from_str succeeds on the whole text only
Complete(f) == f.len = WriteCalls

NotLoaded == [kind |-> "none", ver |-> 0]

InitState ==
    /\ stf \in {[file |-> f, wpc |-> "idle", saves |-> 0, rpc |-> "idle",
                 loads |-> 0, got |-> NotLoaded] : f \in {NoFile, File(0, WriteCalls)}}
    /\ ovl = Idle
    /\ mgc = Idle
    /\ stg = Idle
    /\ cfp = Idle
    /\ PlannerIdleVars
    /\ RatoonIdle
    /\ ExecIdle
    /\ MountIdle

\* save: fs::write opens STATE_FILE with create and truncate
SaveOpen ==
    /\ stf.wpc = "idle"
    /\ stf.saves < MaxSaves
    /\ stf' = [stf EXCEPT !.file = File(stf.saves + 1, 0),
                          !.wpc = "writing",
                          !.saves = stf.saves + 1]
    /\ UNCHANGED <<ovl, mgc, stg, cfp, ratoonVars, planVars, execVars, mountVars>>

\* save: one write call of fs::write's write_all; an error ends save
SaveWrite ==
    /\ stf.wpc = "writing"
    /\ \E ok \in BOOLEAN :
         stf' = IF ok
                THEN [stf EXCEPT !.file.len = stf.file.len + 1,
                                 !.wpc = IF stf.file.len + 1 = WriteCalls
                                         THEN "idle" ELSE "writing"]
                ELSE [stf EXCEPT !.wpc = "idle"]
    /\ UNCHANGED <<ovl, mgc, stg, cfp, ratoonVars, planVars, execVars, mountVars>>

\* load: the exists() test
LoadExists ==
    /\ stf.rpc = "idle"
    /\ stf' = IF stf.file.exists
              THEN [stf EXCEPT !.rpc = "checked"]
              ELSE [stf EXCEPT !.rpc = "loaded", !.got = [kind |-> "default", ver |-> 0]]
    /\ UNCHANGED <<ovl, mgc, stg, cfp, ratoonVars, planVars, execVars, mountVars>>

\* load: read_to_string and serde_json::from_str
LoadRead ==
    /\ stf.rpc = "checked"
    /\ stf' = [stf EXCEPT !.rpc = "loaded",
                          !.got = [kind |-> IF Complete(stf.file) THEN "state" ELSE "error",
                                   ver |-> stf.file.ver]]
    /\ UNCHANGED <<ovl, mgc, stg, cfp, ratoonVars, planVars, execVars, mountVars>>

\* the next subcommand process
LoadAgain ==
    /\ stf.rpc = "loaded"
    /\ stf.loads < MaxLoads
    /\ stf' = [stf EXCEPT !.rpc = "idle", !.got = NotLoaded, !.loads = stf.loads + 1]
    /\ UNCHANGED <<ovl, mgc, stg, cfp, ratoonVars, planVars, execVars, mountVars>>

NextState == SaveOpen \/ SaveWrite \/ LoadExists \/ LoadRead \/ LoadAgain

SpecState == InitState /\ [][NextState]_vars

----------------------------------------------------------------------------
(* The storage backend, src/core/storage.rs: setup, try_setup_tmpfs and
   setup_ext4_image; the outcome of every system call is an input *)

StorageEnvs ==
    [force_ext4 : BOOLEAN, was_mounted : BOOLEAN, umount_ok : BOOLEAN,
     mkdir_ok : BOOLEAN, tmpfs_ok : BOOLEAN, xattr_ok : BOOLEAN,
     img_exists : BOOLEAN, create_ok : BOOLEAN, mount_ok : BOOLEAN,
     repair_ok : BOOLEAN, remount_ok : BOOLEAN]

Call(op, ok) == [op |-> op, ok |-> ok]

\* a StorageHandle or an error, the calls made and what is mounted on mnt_base
Outcome(res, calls, mounted) == [res |-> res, calls |-> calls, mounted |-> mounted]

\* unmount(mnt_base, DETACH), its result dropped
Detach(mounted, ok) ==
    IF ok /\ mounted # <<>> THEN SubSeq(mounted, 1, Len(mounted) - 1) ELSE mounted

\* try_setup_tmpfs: the tmpfs is kept when the xattr probe passes
TmpfsKeptWithoutProbe(tmpfs_ok, xattr_ok) == tmpfs_ok
TmpfsKept(tmpfs_ok, xattr_ok) == tmpfs_ok /\ xattr_ok

try_setup_tmpfs(e, calls, mounted) ==
    IF ~e.tmpfs_ok
    THEN [kept |-> FALSE, calls |-> Append(calls, Call("mount_tmpfs", FALSE)),
          mounted |-> mounted]
    ELSE IF TmpfsKept(e.tmpfs_ok, e.xattr_ok)
    THEN [kept |-> TRUE,
          calls |-> calls \o <<Call("mount_tmpfs", TRUE), Call("xattr", e.xattr_ok)>>,
          mounted |-> Append(mounted, "tmpfs")]
    ELSE [kept |-> FALSE,
          calls |-> calls \o <<Call("mount_tmpfs", TRUE), Call("xattr", e.xattr_ok),
                               Call("unmount", e.umount_ok)>>,
          mounted |-> Detach(Append(mounted, "tmpfs"), e.umount_ok)]

setup_ext4_image(e, calls0, mounted) ==
    LET calls == IF e.img_exists THEN calls0
                 ELSE Append(calls0, Call("create_image", e.create_ok))
    IN  IF ~e.img_exists /\ ~e.create_ok THEN Outcome("err", calls, mounted)
        ELSE IF e.mount_ok
        THEN Outcome("ext4", Append(calls, Call("mount_image", TRUE)),
                     Append(mounted, "ext4"))
        ELSE IF ~e.repair_ok
        THEN Outcome("err", calls \o <<Call("mount_image", FALSE),
                                       Call("repair_image", FALSE)>>, mounted)
        ELSE IF e.remount_ok
        THEN Outcome("ext4", calls \o <<Call("mount_image", FALSE),
                                        Call("repair_image", TRUE),
                                        Call("mount_image", TRUE)>>,
                     Append(mounted, "ext4"))
        ELSE Outcome("err", calls \o <<Call("mount_image", FALSE),
                                       Call("repair_image", TRUE),
                                       Call("mount_image", FALSE)>>, mounted)

setup(e) ==
    LET before == IF e.was_mounted THEN <<"old">> ELSE <<>>
        calls0 == IF e.was_mounted THEN <<Call("unmount", e.umount_ok)>> ELSE <<>>
        mounted0 == Detach(before, e.umount_ok)
        calls1 == Append(calls0, Call("create_dir_all", e.mkdir_ok))
        tried == try_setup_tmpfs(e, calls1, mounted0)
    IN  IF ~e.mkdir_ok THEN Outcome("err", calls1, mounted0)
        ELSE IF e.force_ext4 THEN setup_ext4_image(e, calls1, mounted0)
        ELSE IF tried.kept THEN Outcome("tmpfs", tried.calls, tried.mounted)
        ELSE setup_ext4_image(e, tried.calls, tried.mounted)

InitStorage ==
    /\ stg \in {[pc |-> "start", env |-> e, res |-> "none", calls |-> <<>>,
                 mounted |-> IF e.was_mounted THEN <<"old">> ELSE <<>>] :
                    e \in StorageEnvs}
    /\ ovl = Idle
    /\ mgc = Idle
    /\ stf = Idle
    /\ cfp = Idle
    /\ PlannerIdleVars
    /\ RatoonIdle
    /\ ExecIdle
    /\ MountIdle

Setup ==
    /\ stg.pc = "start"
    /\ LET out == setup(stg.env)
       IN  stg' = [stg EXCEPT !.pc = "done", !.res = out.res, !.calls = out.calls,
                              !.mounted = out.mounted]
    /\ UNCHANGED <<ovl, mgc, stf, cfp, ratoonVars, planVars, execVars, mountVars>>

NextStorage == Setup

SpecStorage == InitStorage /\ [][NextStorage]_vars

----------------------------------------------------------------------------
(* The partitions value of the config file, src/conf/config.rs:
   deserialize_partitions_flexible; a string is a sequence of characters *)

Alphabet == {"a", "b", ",", " "}
Strings == UNION {[1..n -> Alphabet] : n \in 0..MaxStr}

\* the items a list in the file may hold
ItemChoices == {<<>>, <<"a">>, <<" ", "b">>, <<"a", ",", "b">>}
Lists == UNION {[1..n -> ItemChoices] : n \in 0..MaxItems}

\* the value of the key as the deserializer sees it
TomlString(s) == [kind |-> "string", s |-> s, items |-> <<>>]
TomlArray(items) == [kind |-> "array", s |-> <<>>, items |-> items]
TomlInteger == [kind |-> "integer", s |-> <<>>, items |-> <<>>]
TomlValues ==
    {TomlString(s) : s \in Strings} \cup {TomlArray(l) : l \in Lists} \cup {TomlInteger}

\* s.split(',')
RECURSIVE Split(_, _, _)
Split(s, done, cur) ==
    IF s = <<>> THEN Append(done, cur)
    ELSE IF Head(s) = "," THEN Split(Tail(s), Append(done, cur), <<>>)
    ELSE Split(Tail(s), done, Append(cur, Head(s)))

RECURSIVE TrimStart(_)
TrimStart(s) ==
    IF s # <<>> /\ Head(s) = " " THEN TrimStart(Tail(s)) ELSE s
RECURSIVE TrimEnd(_)
TrimEnd(s) ==
    IF s # <<>> /\ s[Len(s)] = " " THEN TrimEnd(SubSeq(s, 1, Len(s) - 1)) ELSE s

\* item.trim()
NoTrim(item) == item
Trim(item) == TrimEnd(TrimStart(item))

NonEmpty(item) == item # <<>>

\* deserialize_partitions_flexible: the untagged StringOrVec, then the match
deserialize_partitions_flexible(value) ==
    CASE value.kind = "string" ->
           LET split == Split(value.s, <<>>, <<>>)
           IN  [ok |-> TRUE,
                list |-> SelectSeq([i \in 1..Len(split) |-> Trim(split[i])], NonEmpty)]
      [] value.kind = "array" -> [ok |-> TRUE, list |-> value.items]
      [] OTHER -> [ok |-> FALSE, list |-> <<>>]

\* Serialize of Vec<String>: a sequence of strings
Serialize(list) == TomlArray(list)

InitConfig ==
    /\ cfp \in {[pc |-> "start", value |-> v, ok |-> FALSE, parsed |-> <<>>,
                 again |-> <<>>] : v \in TomlValues}
    /\ ovl = Idle
    /\ mgc = Idle
    /\ stf = Idle
    /\ stg = Idle
    /\ PlannerIdleVars
    /\ RatoonIdle
    /\ ExecIdle
    /\ MountIdle

\* Config::from_file reading the partitions key
Deserialize ==
    /\ cfp.pc = "start"
    /\ LET r == deserialize_partitions_flexible(cfp.value)
       IN  cfp' = [cfp EXCEPT !.pc = "parsed", !.ok = r.ok, !.parsed = r.list]
    /\ UNCHANGED <<ovl, mgc, stf, stg, ratoonVars, planVars, execVars, mountVars>>

\* Config::save_to_file, then Config::from_file on what was written
SaveAndReload ==
    /\ cfp.pc = "parsed"
    /\ cfp.ok
    /\ cfp' = [cfp EXCEPT !.pc = "round",
                          !.again = deserialize_partitions_flexible(Serialize(cfp.parsed)).list]
    /\ UNCHANGED <<ovl, mgc, stf, stg, ratoonVars, planVars, execVars, mountVars>>

NextConfig == Deserialize \/ SaveAndReload

SpecConfig == InitConfig /\ [][NextConfig]_vars

----------------------------------------------------------------------------
(* The OverlayFS engine, src/mount/overlay.rs: mount_overlay and the
   restoration of the child mounts below the target *)

\* a mount point below the target: what stands at its path under the stock
\* root, and what the module roots have at its relative path ("file": one of
\* them has something that is no directory)
ChildMounts == [stock : {"missing", "file", "dir"}, mod : {"none", "file", "dir"}]
ChildMountLists == UNION {[1..n -> ChildMounts] : n \in 0..MaxChildMounts}

Root == [kind |-> "root", id |-> 0]
ChildPoint(i) == [kind |-> "child", id |-> i]

\* bind_mount and do_mount_overlay: after the mount, the hint unless disabled
Mounted(o, point) ==
    [o EXCEPT !.live = o.live \cup {point},
              !.hints = IF o.disable_umount THEN o.hints ELSE Append(o.hints, point)]

\* bind_mount(stock_root, mount_point)
bind_mount(o, point, bind_ok) ==
    IF bind_ok THEN [ok |-> TRUE, o |-> Mounted(o, point)] ELSE [ok |-> FALSE, o |-> o]

\* mount_overlay_child
mount_overlay_child(o, i, overlay_ok, bind_ok) ==
    LET child == o.child_mounts[i]
        has_modification == child.mod # "none"
    IN  IF ~has_modification THEN bind_mount(o, ChildPoint(i), bind_ok)
        ELSE IF child.stock # "dir" THEN [ok |-> TRUE, o |-> o]
        ELSE IF child.mod = "file" THEN [ok |-> TRUE, o |-> o]
        ELSE IF overlay_ok THEN [ok |-> TRUE, o |-> Mounted(o, ChildPoint(i))]
        ELSE bind_mount(o, ChildPoint(i), bind_ok)

\* mount_overlay: is the error of mount_overlay_child returned; the Err arm of
\* the call only warns
ChildErrorPropagated(r) == ~r.ok
ChildErrorReturned(r) == FALSE

InitRestore ==
    /\ ovl \in {[pc |-> "open", child_mounts |-> q, disable_umount |-> d, i |-> 1,
                 live |-> {}, hints |-> <<>>, tried |-> <<>>, warned |-> {},
                 root_mounted |-> FALSE, res |-> "none"] :
                    q \in ChildMountLists, d \in BOOLEAN}
    /\ mgc = Idle
    /\ stf = Idle
    /\ stg = Idle
    /\ cfp = Idle
    /\ PlannerIdleVars
    /\ RatoonIdle
    /\ ExecIdle
    /\ MountIdle

\* mount_overlay up to its loop: File::open of the target root and the
\* overlay mount on it
MountOverlay ==
    /\ ovl.pc = "open"
    /\ \E open_ok \in BOOLEAN, root_ok \in BOOLEAN :
         ovl' = IF ~open_ok \/ ~root_ok
                THEN [ovl EXCEPT !.pc = "done", !.res = "err"]
                ELSE [Mounted(ovl, Root) EXCEPT !.pc = "children", !.root_mounted = TRUE]
    /\ UNCHANGED <<mgc, stf, stg, cfp, ratoonVars, planVars, execVars, mountVars>>

\* mount_overlay: one turn of the loop over child_mounts, or the return after
\* the loop
RestoreChild ==
    /\ ovl.pc = "children"
    /\ IF ovl.i > Len(ovl.child_mounts)
       THEN ovl' = [ovl EXCEPT !.pc = "done", !.res = "ok"]
       ELSE IF ovl.child_mounts[ovl.i].stock = "missing"
       THEN ovl' = [ovl EXCEPT !.i = ovl.i + 1]
       ELSE \E overlay_ok \in BOOLEAN, bind_ok \in BOOLEAN :
              LET r == mount_overlay_child(ovl, ovl.i, overlay_ok, bind_ok)
                  o == [r.o EXCEPT !.tried = Append(ovl.tried, ovl.i),
                                   !.warned = IF r.ok THEN ovl.warned
                                              ELSE ovl.warned \cup {ovl.i}]
              IN  ovl' = IF ChildErrorReturned(r)
                         THEN [o EXCEPT !.pc = "done", !.res = "err"]
                         ELSE [o EXCEPT !.i = ovl.i + 1]
    /\ UNCHANGED <<mgc, stf, stg, cfp, ratoonVars, planVars, execVars, mountVars>>

NextRestore == MountOverlay \/ RestoreChild

SpecRestore == InitRestore /\ [][NextRestore]_vars

----------------------------------------------------------------------------
(* Claims about Ratoon and the Granary *)

EveryEnabledDisabled == \A i \in DOMAIN mods : ~IsEnabled(mods[i])

\* C1: once three consecutive engage calls were made with no disengage between
\* them, a restore succeeded within them (and deleted the counter file) or no
\* module directory is left enabled, whatever the file operations did.
C1_RollbackOrAllDisabled ==
    Len(hist) = RatoonThreshold =>
        \/ \E i \in 1..Len(hist) : hist[i] = "restored"
        \/ EveryEnabledDisabled

\* C2: the rollback of the third consecutive boot without disengage writes the
\* last known-good config, the one of the latest boot followed by disengage.
C2_RollbackWritesKnownGood ==
    [][(Boot /\ streak' = RatoonThreshold /\ hist'[Len(hist')] = "restored"
             /\ knownGood # "none")
        => liveConfig' = knownGood]_vars

StartedAbsent == base \in {"absent", "disengaged"}
NewestSilo(files) == CHOOSE s \in files : \A t \in files : t.timestamp <= s.timestamp

\* C3: with the counter file absent at the start and a silo in the granary, the
\* third engage call leaves the live config equal to the config_snapshot of the
\* silo with the greatest timestamp and the counter file removed; the first two
\* calls leave the live config alone.
C3_ThirdEngageRestoresNewest ==
    [][(Engage /\ StartedAbsent) =>
         /\ (streak' \in {1, 2} => liveConfig' = liveConfig)
         /\ (streak' = 3 /\ silos # {} =>
               liveConfig' = NewestSilo(silos).config /\ counter' = Absent)]_vars

C3_Reached ==
    /\ StartedAbsent
    /\ streak = 3
    /\ hist = <<"none", "none", "restored">>
    /\ Cardinality({s.config : s \in silos}) = 2
    /\ liveConfig = NewestSilo(silos).config
    /\ counter = Absent

\* the value the counter file stores, an absent or unparsable file counting as 0
StoredValue(c) == IF c.kind = "num" THEN c.val ELSE 0

C5_AtMostFiveStrictlyDecreasing ==
    /\ Cardinality(silos) <= 5
    /\ LET l == list_silos(silos)
       IN  /\ Len(l) = Cardinality(silos)
           /\ \A i \in 1..Len(l) : \A j \in 1..Len(l) :
                 i < j => l[i].timestamp > l[j].timestamp

C5_Reached ==
    /\ Cardinality(silos) = 5
    /\ now = 6
    /\ {s.timestamp : s \in silos} = 2..6

----------------------------------------------------------------------------
(* Claims about the planners *)

LayerIds(pl) ==
    UNION {{op.lowerdirs[i].id : i \in DOMAIN op.lowerdirs} : op \in pl.overlay_ops}

\* C6: a module whose default_mode is ignore is in neither id list of the plan,
\* and none of its directories is a lowerdir or a magic module path.
C6_IgnoredModulesUnplanned ==
    ppc = "core" =>
        \A id \in DOMAIN moddir :
            moddir[id].mode = "ignore" =>
                /\ id \notin Range(plan.overlay_module_ids)
                /\ id \notin Range(plan.magic_module_ids)
                /\ id \notin LayerIds(plan)
                /\ id \notin {path.id : path \in plan.magic_module_paths}

\* C7: no module id is in both overlay_module_ids and magic_module_ids of a plan.
C7_IdListsDisjoint ==
    ppc # "idle" =>
        Range(plan.overlay_module_ids) \cap Range(plan.magic_module_ids) = {}

C7_Reached ==
    /\ ppc = "core"
    /\ plan.overlay_module_ids # <<>>
    /\ plan.magic_module_ids # <<>>

\* C8: every OverlayOperation of a generated plan has a non-empty lowerdirs
\* list whose entries are in descending order of module id.
C8_LowerdirsDescending ==
    ppc # "idle" =>
        \A op \in plan.overlay_ops :
            /\ op.lowerdirs # <<>>
            /\ \A i, j \in DOMAIN op.lowerdirs :
                  i < j => op.lowerdirs[i].id >= op.lowerdirs[j].id

----------------------------------------------------------------------------
(* Claims about the executor and the mount sequence *)

OpIds(op) == {extract_id(op.lowerdirs[i]) : i \in DOMAIN op.lowerdirs}
StrictlyAscending(q) == \A i, j \in DOMAIN q : i < j => q[i] < q[j]

\* C9 as stated: when execute returns, every module with a layer in a failed
\* operation is out of overlay_module_ids, was handed to the magic engine (in a
\* queue without duplicates) and is in magic_module_ids, which is sorted
\* ascending without duplicates; every module of an operation that mounted is
\* still in overlay_module_ids.
C9_FailedLayersMoveToMagic ==
    epc = "done" =>
        /\ \A op \in failed : \A id \in OpIds(op) :
              /\ id \notin Range(result.overlay_module_ids)
              /\ Path(id, "") \in Range(handed)
              /\ id \in Range(result.magic_module_ids)
        /\ StrictlyAscending([i \in DOMAIN handed |-> extract_id(handed[i])])
        /\ StrictlyAscending(result.magic_module_ids)
        /\ \A op \in plan.overlay_ops \ failed : \A id \in OpIds(op) :
              id \in Range(result.overlay_module_ids)

\* C9 amended: when execute returns a result, every module with a layer in a
\* failed operation is out of overlay_module_ids and was handed to the magic
\* engine in a queue without duplicates; magic_module_ids is sorted ascending
\* without duplicates, holds exactly the handed modules if the magic engine
\* succeeded and is empty if it failed; a module of the plan's
\* overlay_module_ids that has no layer in any failed operation stays listed.
C9_FallbackListedIfMagicSucceeds ==
    epc = "done" =>
        /\ \A op \in failed : \A id \in OpIds(op) :
              /\ id \notin Range(result.overlay_module_ids)
              /\ Path(id, "") \in Range(handed)
        /\ StrictlyAscending([i \in DOMAIN handed |-> extract_id(handed[i])])
        /\ StrictlyAscending(result.magic_module_ids)
        /\ engine = "ok" =>
              Range(result.magic_module_ids) = {extract_id(pth) : pth \in Range(handed)}
        /\ engine = "failed" => result.magic_module_ids = <<>>
        /\ \A id \in Range(plan.overlay_module_ids) :
              (\A op \in failed : id \notin OpIds(op))
                  => id \in Range(result.overlay_module_ids)

C9_Reached ==
    /\ epc = "done"
    /\ engine = "ok"
    /\ Cardinality(failed) = 2
    /\ plan.overlay_ops \ failed # {}
    /\ \E op1 \in failed : \E op2 \in failed : op1 # op2 /\ OpIds(op1) \cap OpIds(op2) # {}
    /\ result.overlay_module_ids # <<>>
    /\ result.magic_module_ids # <<>>

\* C10: no magic-mount operation starts before the last overlay mount attempt:
\* in the order of the attempts, no magic one precedes an overlay one.
C10_OverlayPhaseBeforeMagic ==
    \A i, j \in DOMAIN events :
        i < j => ~(events[i].engine = "magic" /\ events[j].engine = "overlay")

----------------------------------------------------------------------------
(* Claims about the OverlayFS engine *)

Staged == ovl.pc # "idle" /\ ovl.how = "staged"

\* the layers a mount exposes, highest first: a lower that is a staging
\* directory stands for the layers of the mount made on it
RECURSIVE Effective(_, _)
Effective(lowers, made) ==
    IF lowers = <<>> THEN <<>>
    ELSE LET h == Head(lowers)
             on == {k \in DOMAIN made : made[k].target = h}
         IN  (IF h.kind = "stage" /\ on # {}
              THEN Effective(made[CHOOSE k \in on : TRUE].lowers, made)
              ELSE <<h>>)
             \o Effective(Tail(lowers), made)

\* C11: in staged mounting the k-th mount made carries the k-th batch counted
\* from the end plus the current base (the stock root, then the previous staging
\* directory); a non-final mount is on a fresh staging directory, only the last
\* one is on the destination, and once all are made the destination exposes
\* the original lower_dirs in order followed by the stock root.
C11_StagedReverseOrder ==
    Staged =>
        LET n == Len(ovl.batches)
            made == ovl.made
        IN  /\ \A k \in DOMAIN made :
                 /\ made[k].lowers =
                       ovl.batches[n + 1 - k]
                         \o <<IF k = 1 THEN Lowest ELSE made[k - 1].target>>
                 /\ (made[k].target = Dest) <=> (k = n)
                 /\ k < n => /\ made[k].target.kind = "stage"
                             /\ \A j \in 1..(k - 1) : made[j].target # made[k].target
            /\ ovl.res = "ok" =>
                 /\ Len(made) = n
                 /\ Effective(made[n].lowers, made) = ovl.lower_dirs \o <<Lowest>>

C11_Reached ==
    /\ Staged
    /\ ovl.res = "ok"
    /\ Len(ovl.batches) = 3
    /\ Len(ovl.made) = 3
    /\ ovl.made[3].target = Dest

\* C12: when a staged mount returns an error no staging mount and no staging
\* directory is left, the directory of the failed stage included; when it
\* returns Ok the guard is committed and every staging mount is still there.
C12_FailureLeavesNoStage ==
    (Staged /\ ovl.pc = "done") =>
        /\ ovl.res = "err" =>
              /\ {t \in ovl.live : t.kind = "stage"} = {}
              /\ ovl.dirs = {}
        /\ ovl.res = "ok" =>
              /\ ovl.committed
              /\ \A k \in 1..(Len(ovl.made) - 1) : ovl.made[k].target \in ovl.live

\* C13: a mount whose joined lowerdir string exceeds 4000 bytes, with no
\* upperdir and no workdir, is made by staged mounting; with an upperdir or a
\* workdir the engine never goes to staged mounting.
C13_OverlongGoesStaged ==
    (ovl.pc = "done") =>
        /\ (JoinedLen(ovl.lower_dirs) > PAGE_LIMIT /\ ~ovl.upper) => ovl.how = "staged"
        /\ ovl.upper => ovl.how # "staged"

----------------------------------------------------------------------------
(* Claims about the magic engine *)

\* the modules that ship an entry at system/app
AppProviders == {m \in TreeModIds : mgc.shapes[m].app.kind # "absent"}

\* the node of system/app in the merged tree
HasApp(root) ==
    /\ "system" \in DOMAIN root.children
    /\ "app" \in DOMAIN root.children["system"].children
MergedApp == mgc.root.children["system"].children["app"]

RECURSIVE InTree(_, _)
InTree(node, path) ==
    \/ path = <<>>
    \/ /\ Head(path) \in DOMAIN node.children
       /\ InTree(node.children[Head(path)], Tail(path))
RECURSIVE NodeAt(_, _)
NodeAt(node, path) ==
    IF path = <<>> THEN node ELSE NodeAt(node.children[Head(path)], Tail(path))

RECURSIVE LeavesChildless(_)
LeavesChildless(node) ==
    /\ node.file_type # "Directory" => DOMAIN node.children = {}
    /\ \A n \in DOMAIN node.children : LeavesChildless(node.children[n])

\* C14: in the merged tree every Whiteout, Symlink and RegularFile node has
\* no children, also where a higher-priority module ships a leaf and a
\* lower-priority module a directory with children at the same path.
C14_LeavesHaveNoChildren ==
    mgc.pc # "start" => LeavesChildless(mgc.root)

\* the replace directories of the merged tree at system/app, system/vendor
\* and vendor, with their paths
ReplaceDirs ==
    {d \in {[node |-> NodeAt(mgc.root, q), path |-> q] :
                q \in {q \in {<<"system", "app">>, <<"system", "vendor">>, <<"vendor">>} :
                          InTree(mgc.root, q)}} :
        d.node.file_type = "Directory" /\ d.node.replace}

RECURSIVE ReplaceHasPath(_)
ReplaceHasPath(node) ==
    /\ node.replace => node.module_path # None
    /\ \A n \in DOMAIN node.children : ReplaceHasPath(node.children[n])

\* the trees process_module builds satisfy the invariant merge_nodes starts from
ModuleTreesHavePath ==
    \A m \in TreeModIds :
        LET pair == process_module(mgc.shapes[m], m)
        IN  ReplaceHasPath(pair.root) /\ ReplaceHasPath(pair.system)

\* C15: every node of the merged tree with replace = true has module_path
\* set (merge_nodes keeps the invariant of the trees it merges), and mounting
\* a replace directory without module_path fails instead of projecting it.
C15_ReplaceHasModulePath ==
    mgc.pc # "start" =>
        /\ ModuleTreesHavePath
        /\ ReplaceHasPath(mgc.root)
        /\ \A d \in ReplaceDirs :
              \A inherited \in BOOLEAN, ord \in Orders :
                  ~handle_directory([d.node EXCEPT !.module_path = None],
                                    d.path, inherited, mgc.live,
                                    [ord |-> ord, bad |-> {}]).ok

\* a merge took place whose high node had no module_path and whose low node
\* is a replace directory, and the merged replace directory is in the tree
C15_Reached ==
    /\ mgc.pc = "done"
    /\ \E m1, m2 \in TreeModIds :
          /\ m1 < m2
          /\ mgc.shapes[m1].vendor = "linked"
          /\ mgc.shapes[m2].vendor = "replaced"
    /\ \E d \in ReplaceDirs : d.path[Len(d.path)] = "vendor" /\ d.node.module_path # None

Greatest(S) == CHOOSE m \in S : \A k \in S : k <= m

\* C16: the trees are merged in inventory order (descending module id):
\* where several modules ship system/app, the merged node is the one of the
\* module that comes first in that order.
C16_EarlierInInventoryWins ==
    mgc.pc # "start" /\ AppProviders # {} =>
        /\ HasApp(mgc.root)
        /\ MergedApp.module_path = Greatest(AppProviders)

\* the projection of the node at system/app
AppProj == mgc.proj.entries["system"].entries["app"]
AppProjected ==
    /\ mgc.pc = "done"
    /\ HasApp(mgc.root)
    /\ "system" \in DOMAIN mgc.proj.entries
    /\ "app" \in DOMAIN mgc.proj.entries["system"].entries

\* C17: a mounted replace directory holds exactly its own children that are
\* not skipped and not a Whiteout, and no entry mirrored from the live
\* directory at its path.
C17_ReplaceMirrorsNothing ==
    AppProjected /\ MergedApp.file_type = "Directory" /\ MergedApp.replace
                 /\ AppProj.ok =>
        /\ DOMAIN AppProj.entries =
              {n \in DOMAIN MergedApp.children :
                  /\ ~MergedApp.children[n].skip
                  /\ MergedApp.children[n].file_type # "Whiteout"}
        /\ \A n \in DOMAIN AppProj.entries : AppProj.entries[n].kind # "mirror"

\* a replace directory was mounted over a live directory that has entries,
\* one of its children being a Whiteout
C17_Reached ==
    /\ AppProjected /\ MergedApp.file_type = "Directory" /\ MergedApp.replace
    /\ AppProj.ok /\ AppProj.kind = "dir"
    /\ mgc.live.app = "dir"
    /\ "x" \in DOMAIN MergedApp.children
    /\ MergedApp.children["x"].file_type = "Whiteout"
    /\ AppProj.entries = NoChildren

\* a replace directory with a file child was mounted over a live directory
C17_ReachedFile ==
    /\ AppProjected /\ MergedApp.replace /\ AppProj.ok
    /\ mgc.live.app = "dir"
    /\ DOMAIN AppProj.entries = {"x"}

----------------------------------------------------------------------------
(* Claims about the runtime state file *)

\* C18: save replaces the state file atomically: a load that runs beside it
\* gets the whole previous state, the whole new state, or (no file) the
\* default state, never a truncated or partly written file.
C18_ReaderSeesWholeFile ==
    stf.rpc = "loaded" => stf.got.kind \in {"default", "state"}

----------------------------------------------------------------------------
(* Claims about the storage backend *)

\* the positions in the calls of setup where op was called with result ok
Calls(op, ok) == {i \in 1..Len(stg.calls) : stg.calls[i] = Call(op, ok)}
Made(op) == Calls(op, TRUE) \cup Calls(op, FALSE)

\* setup went into setup_ext4_image
Ext4Path == Made("create_image") \cup Made("mount_image") # {}

\* what C19 says of the ext4 path and of the value returned
Ext4PathAsStated ==
    /\ Cardinality(Made("mount_image")) <= 2
    /\ Cardinality(Made("repair_image")) <= 1
    /\ Cardinality(Made("mount_image")) = 2 =>
          \E i, k \in Made("mount_image"), j \in Made("repair_image") : i < j /\ j < k
    /\ Made("repair_image") # {} => Cardinality(Made("mount_image")) = 2
                                    \/ Calls("repair_image", FALSE) # {}
    /\ stg.res = "ext4" => Calls("mount_image", TRUE) # {}
    /\ Calls("repair_image", FALSE) # {} => stg.res = "err"
    /\ (\E i, k \in Calls("mount_image", FALSE) : i < k) => stg.res = "err"
    /\ stg.res # "err" =>
          /\ stg.mounted # <<>>
          /\ stg.mounted[Len(stg.mounted)] = stg.res

TmpfsAsStated ==
    stg.res = "tmpfs" <=>
        /\ ~stg.env.force_ext4
        /\ Calls("mount_tmpfs", TRUE) # {}
        /\ Calls("xattr", TRUE) # {}

\* C19: setup returns "tmpfs" exactly when force_ext4 is off and the tmpfs
\* mount and the xattr probe succeeded; in every other case it takes the
\* ext4 path, which mounts at most twice with one repair in between, returns
\* "ext4" only after a successful mount and an error when the repair or the
\* second mount fails; it never returns Ok with nothing mounted.
C19_TmpfsOrExt4 ==
    stg.pc = "done" =>
        /\ TmpfsAsStated
        /\ stg.res # "tmpfs" => Ext4Path
        /\ Ext4PathAsStated

\* C19, amended: the same, for the calls in which the mount base directory
\* could be created; when create_dir_all fails setup returns the error
\* before any mount.
C19_TmpfsOrExt4Amended ==
    stg.pc = "done" =>
        /\ TmpfsAsStated
        /\ Calls("create_dir_all", TRUE) # {} /\ stg.res # "tmpfs" => Ext4Path
        /\ Calls("create_dir_all", FALSE) # {} =>
              stg.res = "err" /\ ~Ext4Path /\ Made("mount_tmpfs") = {}
        /\ Ext4PathAsStated

\* the tmpfs was mounted, the probe failed, and the image was mounted after
\* one repair
C19_Reached ==
    /\ stg.pc = "done"
    /\ Calls("mount_tmpfs", TRUE) # {} /\ Calls("xattr", FALSE) # {}
    /\ Calls("repair_image", TRUE) # {}
    /\ stg.res = "ext4"

----------------------------------------------------------------------------
(* Claims about the partitions value *)

\* the first position of every comma-separated item of s
ItemStarts(s) == {1} \cup {i + 1 : i \in {i \in 1..Len(s) : s[i] = ","}}

\* the positions of the item that starts at st which hold no blank
ItemCore(s, st) ==
    {i \in st..Len(s) : s[i] # " " /\ \A j \in st..i : s[j] # ","}

KeptStarts(s) == {st \in ItemStarts(s) : ItemCore(s, st) # {}}

\* the k-th item that is not blank, from its first to its last non-blank
KeptItem(s, k) ==
    LET st == CHOOSE st \in KeptStarts(s) :
                  Cardinality({t \in KeptStarts(s) : t < st}) = k - 1
        core == ItemCore(s, st)
    IN  SubSeq(s, CHOOSE i \in core : \A j \in core : i <= j,
                  CHOOSE i \in core : \A j \in core : j <= i)

\* C20: a comma-separated string parses to its items, each without the
\* blanks around it, empty items dropped, in order; a list is taken as it
\* is; parsing the serialized result gives the same list.
C20_PartitionsRoundTrip ==
    cfp.pc # "start" =>
        /\ cfp.value.kind = "string" =>
              /\ cfp.ok
              /\ Len(cfp.parsed) = Cardinality(KeptStarts(cfp.value.s))
              /\ \A k \in 1..Len(cfp.parsed) : cfp.parsed[k] = KeptItem(cfp.value.s, k)
        /\ cfp.value.kind = "array" => cfp.ok /\ cfp.parsed = cfp.value.items
        /\ cfp.pc = "round" => cfp.again = cfp.parsed

\* the string " a,,b" was parsed to the list of a and b, saved and reloaded
C20_Reached ==
    /\ cfp.pc = "round"
    /\ cfp.value = TomlString(<<" ", "a", ",", ",", "b">>)
    /\ cfp.parsed = <<<<"a">>, <<"b">>>>
    /\ cfp.again = <<<<"a">>, <<"b">>>>

----------------------------------------------------------------------------
(* Claims about the failure handling of the magic engine *)

\* the tree was mounted: mount_partitions got past the set-up of its workdir
TreeMounted ==
    mgc.pc = "done" /\ mgc.some /\ mgc.env.bad \cap SetupCalls = {}

LogNames(r) == {r.log[i].name : i \in 1..Len(r.log)}

\* for the directory node mounted with result r, and the directories below it
RECURSIVE AbortsAsStated(_, _)
AbortsAsStated(node, r) ==
    /\ r.covered =>
          \A i \in 1..Len(r.log) : ~r.log[i].res.ok => i = Len(r.log) /\ ~r.ok
    /\ ~r.covered =>
          /\ r.ok
          /\ \A n \in DOMAIN node.children :
                n \in LogNames(r) \/ node.children[n].module_path = None
    /\ \A i \in 1..Len(r.log) :
          (/\ r.log[i].name \in DOMAIN node.children
           /\ node.children[r.log[i].name].file_type = "Directory")
          => AbortsAsStated(node.children[r.log[i].name], r.log[i].res)

\* C21: in a directory mounted with a tmpfs (inherited or its own) the first
\* failing child ends the directory's mount with the error and no further
\* sibling is processed; without a tmpfs a failing child is passed over, the
\* remaining siblings are processed and the directory's mount succeeds.
C21_AbortOnlyUnderTmpfs ==
    TreeMounted => AbortsAsStated(mgc.root, mgc.proj)

\* /system was mounted with a tmpfs and gave up at the first of its two entries,
\* and the root, mounted without a tmpfs, went on and returned success
C21_Reached ==
    /\ TreeMounted
    /\ ~mgc.proj.covered /\ mgc.proj.ok
    /\ \E i \in 1..Len(mgc.proj.log) :
          /\ mgc.proj.log[i].name = "system"
          /\ i < Len(mgc.proj.log)
          /\ LET s == mgc.proj.log[i].res
             IN  /\ s.covered /\ ~s.ok
                 /\ Len(s.log) = 1 /\ ~s.log[1].res.ok
                 /\ Cardinality(DOMAIN mgc.root.children["system"].children
                                   \cup LiveEntries(mgc.live, <<"system">>)) = 2

\* a child needs a tmpfs: a symlink, a whiteout over a live entry, a live
\* entry that is missing or of another type
Requires(child, lt) ==
    CASE child.file_type = "Symlink" -> TRUE
      [] child.file_type = "Whiteout" -> lt # "absent"
      [] OTHER -> lt \in {"absent", "link"} \/ LiveFileType(lt) # child.file_type

\* for the directory node at path mounted with result r, and the directories
\* below it: where check_tmpfs ran, no child that needs a tmpfs and has no
\* module_path was mounted
RECURSIVE SkipsAsStated(_, _, _, _)
SkipsAsStated(node, r, path, inherited) ==
    /\ ~inherited /\ ~(node.replace /\ node.module_path # None) =>
          \A n \in DOMAIN node.children :
              (/\ Requires(node.children[n], LiveType(mgc.live, Append(path, n)))
               /\ node.children[n].module_path = None)
              => n \notin LogNames(r)
    /\ \A i \in 1..Len(r.log) :
          (/\ r.log[i].name \in DOMAIN node.children
           /\ node.children[r.log[i].name].file_type = "Directory")
          => SkipsAsStated(node.children[r.log[i].name], r.log[i].res,
                           Append(path, r.log[i].name), r.covered)

\* C22: after check_tmpfs every child that needs a tmpfs and has no
\* module_path is marked skip, in whatever order the children are visited
\* and whether or not another child already made the directory need a tmpfs:
\* no such child is mounted afterwards.
C22_NeedyChildWithoutPathSkipped ==
    TreeMounted => SkipsAsStated(mgc.root, mgc.proj, <<>>, FALSE)

\* mount_partitions has returned after its mount of the tmpfs at
\* <tmp_path>/workdir succeeded, and the kernel refuses no unmount
TmpfsWasMounted ==
    /\ mgc.pc = "done"
    /\ mgc.some
    /\ mgc.env.bad \cap {"ensure_dir_exists", "mount_tmp", "workdir"} = {}

\* C24: on every return path of mount_partitions after the private tmpfs was
\* mounted at <tmp_path>/workdir (the tree mount succeeded, it failed, or
\* making the tmpfs private failed) the tmpfs has been detached and the
\* workdir directory removed.
C24_WorkdirReleased ==
    TmpfsWasMounted => ~mgc.work.mounted /\ ~mgc.work.dir

\* the file nodes of a mounted tree on which do_magic_mount was called with a
\* module_path, with what the call left
RECURSIVE FileMounts(_, _)
FileMounts(node, r) ==
    UNION {LET child == node.children[r.log[i].name]
               res == r.log[i].res
           IN  IF child.file_type = "RegularFile" /\ child.module_path # None
               THEN {res}
               ELSE IF child.file_type = "Directory" THEN FileMounts(child, res)
               ELSE {}
           : i \in {j \in 1..Len(r.log) : r.log[j].name \in DOMAIN node.children}}

\* C26: with umount-hinting enabled the hint is called for a mountpoint after
\* each successful mount and never for a path on which the mount did not
\* succeed, in the magic engine's file bind mounts as in the overlay engine;
\* the result of the hint does not change the result of the mount.
C26_HintedIffMounted ==
    TreeMounted /\ mgc.env.umount =>
        \A f \in FileMounts(mgc.root, mgc.proj) : f.hinted <=> f.ok

----------------------------------------------------------------------------
(* Claims about the batches of staged mounting *)

RECURSIVE Flatten(_)
Flatten(qs) == IF qs = <<>> THEN <<>> ELSE Head(qs) \o Flatten(Tail(qs))

\* the length of the paths of a batch joined with ":"
BatchLen(batch) == SumLen(batch) + Len(batch) - 1

\* C27: staged mounting splits every list of layer paths into consecutive
\* non-empty batches that together hold every layer exactly once in the
\* original order, each batch of a colon-joined size of at most 3500 bytes,
\* also when a single layer path is close to or longer than 3500 bytes.
C27_BatchesPartitionWithinChunk ==
    ovl.how = "staged" /\ ovl.pc = "staged" =>
        /\ Flatten(ovl.batches) = ovl.lower_dirs
        /\ \A i \in DOMAIN ovl.batches :
              /\ ovl.batches[i] # <<>>
              /\ BatchLen(ovl.batches[i]) <= SAFE_CHUNK_SIZE

----------------------------------------------------------------------------
(* Claims about the restoration of the child mounts *)

\* C23: mount_overlay returns success whenever the root overlay was mounted,
\* whatever became of each child mount: a child that fails leaves the root
\* overlay mounted and the remaining children are still attempted; it returns
\* an error only when the root overlay could not be mounted.
C23_ChildFailureOnlyWarned ==
    ovl.pc = "done" =>
        /\ ovl.res = "ok" <=> ovl.root_mounted
        /\ ovl.root_mounted =>
              /\ Root \in ovl.live
              /\ \A i \in DOMAIN ovl.child_mounts :
                    ovl.child_mounts[i].stock # "missing" => i \in Range(ovl.tried)

\* the first of two children failed, the second was mounted after it
C23_Reached ==
    /\ ovl.pc = "done"
    /\ ovl.res = "ok"
    /\ ovl.tried = <<1, 2>>
    /\ ovl.warned = {1}
    /\ ovl.live = {Root, ChildPoint(2)}

----------------------------------------------------------------------------
(* Claims about the target partitions of the planner *)

NoRepeats(q) == \A i, j \in DOMAIN q : i # j => q[i] # q[j]

\* C25: the target partitions are the built-in partitions followed by the
\* configured extra partitions with duplicates removed: whatever the extra
\* partitions repeat, no OverlayOperation holds the same directory twice in
\* its lowerdirs and no two OverlayOperations have the same partition name.
C25_PartitionsDeduplicated ==
    ppc = "core" =>
        /\ \A op \in plan.overlay_ops : NoRepeats(op.lowerdirs)
        /\ \A a, b \in plan.overlay_ops : a.partition_name = b.partition_name => a = b

----------------------------------------------------------------------------
(* Claims about the modules an execution projects *)

\* the modules with a layer in an overlay that execute mounted
OverlayCovered ==
    UNION {{extract_id(op.lowerdirs[i]) : i \in DOMAIN op.lowerdirs} :
              op \in plan.overlay_ops \ failed}

\* the modules execute handed to mount_partitions
MagicHanded == {extract_id(handed[i]) : i \in DOMAIN handed}

\* C28: after execute no module is both covered by an overlay that mounted
\* and handed to the magic engine, also when one of its two overlay
\* operations mounted and the other failed, and the overlay_module_ids and
\* magic_module_ids of the ExecutionResult are disjoint.
C28_NoModuleProjectedTwice ==
    epc = "done" =>
        /\ OverlayCovered \cap MagicHanded = {}
        /\ Range(result.overlay_module_ids) \cap Range(result.magic_module_ids) = {}

----------------------------------------------------------------------------
(* Claims about the silos create_silo adds and the Ratoon counter *)

SiloIds(files) == {g.id : g \in files}

\* C29: every create_silo call that succeeds adds a silo distinct from the
\* silos present before it, present with the given config when the call
\* returns, also for two calls within one second of the clock; the pruning
\* removes only silos older than the one just created.
C29_CreateAddsDistinctSilo ==
    [][(CreateSilo \/ SaveConfig) =>
          /\ SiloId(now) \notin SiloIds(silos)
          /\ \E g \in silos' : g.id = SiloId(now) /\ g.config = liveConfig
          /\ \A g \in silos : g.id \notin SiloIds(silos') => g.timestamp < now]_vars

\* the rollback path of engage_ratoon_protocol was taken
RollbackOutcomes == {"restored", "disabled", "aborted"}

\* C30: the Ratoon counter never overflows or wraps: however many engage
\* calls follow one another without a disengage, every restore failing, up to
\* and past a stored value of 255, engage does not panic, every call with a
\* stored value of 2 or more takes the rollback path, and the counter does not
\* go back below 3 without a disengage or a restore that succeeded.
C30_CounterNeverWraps ==
    [][EngageCall =>
          LET outcome == hist'[Len(hist')]
          IN  /\ outcome # "panic"
              /\ StoredValue(counter) >= 2 => outcome \in RollbackOutcomes
              /\ (StoredValue(counter) >= 3 /\ outcome # "restored") =>
                     StoredValue(counter') >= 3]_vars

====
